---- MODULE Spec2Model ----
(***************************************************************************)
(* Smart Device firmware: message codec (message.cpp), COBS framing,       *)
(* cooperative task scheduler and device loop (SmartDevice.cpp).           *)
(*                                                                         *)
(* Bytes are naturals in 0..255.  A Message is its buffer `buf`, a         *)
(* sequence of MESSAGE_MAX_SIZE bytes; C index i is TLA+ index i+1.        *)
(***************************************************************************)
EXTENDS Integers, Sequences, FiniteSets, TLC

(***************************************************************************)
(* Program constants.                                                      *)
(***************************************************************************)
MESSAGE_TYPE_SIZE == 1
PAYLOAD_LEN_SIZE == 1
CHECKSUM_SIZE == 1
PAYLOAD_MAX_SIZE == 255
MAX_PARAMETERS == 16
MESSAGE_MIN_SIZE == MESSAGE_TYPE_SIZE + PAYLOAD_LEN_SIZE + CHECKSUM_SIZE
MESSAGE_MAX_SIZE == MESSAGE_MIN_SIZE + PAYLOAD_MAX_SIZE
\* COBS_ENCODE_DST_BUF_LEN_MAX(n) of cobs.h: n + ceil(n/254), at least n + 1.
ENCODING_MAX_SIZE == MESSAGE_MAX_SIZE + ((MESSAGE_MAX_SIZE + 253) \div 254)

NO_PARAMETERS == 0
NO_SUBSCRIPTION == 0

PING == 16
SUB_REQ == 17
SUB_RES == 18
DEV_READ == 19
DEV_WRITE == 20
DEV_DATA == 21
DEV_DISABLE == 22
HB_REQ == 23
HB_RES == 24
ERROR == 255

BACKOFF == 250
INVALID_TYPE == 251
BUFFER_OVERFLOW == 252
UNEXPECTED_DELIMETER == 253
BAD_CHECKSUM == 254
GENERIC_ERROR == 255

\* The hardcoded COBS-encoded error packet, "\x05\xff\x01\xff\x01".
GENERIC_ERROR_MESSAGE == <<5, 255, 1, 255, 1>>

(***************************************************************************)
(* Bytes and bitmaps.                                                      *)
(***************************************************************************)
Byte == 0..255

Min(a, b) == IF a < b THEN a ELSE b
Max(a, b) == IF a > b THEN a ELSE b

RECURSIVE Pow2Rec(_)
Pow2Rec(n) == IF n = 0 THEN 1 ELSE 2 * Pow2Rec(n - 1)

\* 1 << n for n = 0 .. 16, worked out once.
Pow2Table == <<Pow2Rec(0), Pow2Rec(1), Pow2Rec(2), Pow2Rec(3), Pow2Rec(4), Pow2Rec(5),
               Pow2Rec(6), Pow2Rec(7), Pow2Rec(8), Pow2Rec(9), Pow2Rec(10), Pow2Rec(11),
               Pow2Rec(12), Pow2Rec(13), Pow2Rec(14), Pow2Rec(15), Pow2Rec(16)>>

Pow2(n) == Pow2Table[n + 1]

RECURSIVE XorN(_, _, _)
XorN(a, b, n) ==
    IF n = 0 THEN 0
    ELSE ((a + b) % 2) + 2 * XorN(a \div 2, b \div 2, n - 1)

RECURSIVE XorRow(_, _)
XorRow(a, b) == IF b > 15 THEN <<>> ELSE <<XorN(a, b, 4)>> \o XorRow(a, b + 1)

RECURSIVE XorRows(_)
XorRows(a) == IF a > 15 THEN <<>> ELSE <<XorRow(a, 0)>> \o XorRows(a + 1)

\* a ^ b for four-bit a and b, worked out once.
XorTable == XorRows(0)

\* checksum ^= byte
Xor8(a, b) ==
    XorTable[(a % 16) + 1][(b % 16) + 1] + 16 * XorTable[(a \div 16) + 1][(b \div 16) + 1]

\* get_bit(x, i): ((x) >> (i)) & 0b1
get_bit(x, i) == (x \div Pow2(i)) % 2

\* set_bit(x, i): x | (1 << i)
set_bit(x, i) == IF get_bit(x, i) = 1 THEN x ELSE x + Pow2(i)

\* The bitmap with exactly the bits of the set S.
RECURSIVE MapOf(_)
MapOf(S) ==
    IF S = {} THEN 0
    ELSE LET i == CHOOSE j \in S : TRUE IN Pow2(i) + MapOf(S \ {i})

BitsOf(x) == {i \in 0..(MAX_PARAMETERS - 1) : get_bit(x, i) = 1}

\* Bitwise and of two parameter maps, from bit i on; nothing is left to add
\* once either map has no bit at or above i.
RECURSIVE MapAndFrom(_, _, _)
MapAndFrom(x, y, i) ==
    IF i >= MAX_PARAMETERS THEN 0
    ELSE IF x < Pow2(i) \/ y < Pow2(i) THEN 0
    ELSE (IF get_bit(x, i) = 1 /\ get_bit(y, i) = 1 THEN Pow2(i) ELSE 0)
         + MapAndFrom(x, y, i + 1)

MapAnd(x, y) == IF x = 0 \/ y = 0 THEN 0 ELSE MapAndFrom(x, y, 0)

\* memcpy of an n-byte unsigned integer: little-endian, as on AVR and x86.
RECURSIVE LE(_, _)
LE(x, n) == IF n = 0 THEN <<>> ELSE <<x % 256>> \o LE(x \div 256, n - 1)

RECURSIVE FromLE(_)
FromLE(bs) == IF bs = <<>> THEN 0 ELSE bs[1] + 256 * FromLE(Tail(bs))

\* n bytes of value b.
Fill(n, b) == SubSeq([i \in 1..n |-> b], 1, n)

\* n zero bytes.
Zeros(n) == Fill(n, 0)

\* The sequence s with the bytes of w written at C offset off (memcpy).
Overwrite(s, off, w) ==
    SubSeq(s, 1, off) \o w \o SubSeq(s, off + Len(w) + 1, Len(s))

(***************************************************************************)
(* Message codec (message.cpp).                                            *)
(***************************************************************************)
get_type(buf) == buf[1]

get_payload_length(buf) == buf[MESSAGE_TYPE_SIZE + 1]

get_buffer_length(buf) == MESSAGE_MIN_SIZE + get_payload_length(buf)

\* The XOR of buf[i..n]; XOR is associative, so the loop's left-to-right fold
\* is computed by halving the range.
RECURSIVE XorRange(_, _, _)
XorRange(buf, i, n) ==
    IF i > n THEN 0
    ELSE IF i = n THEN buf[i]
    ELSE LET m == (i + n) \div 2
         IN  Xor8(XorRange(buf, i, m), XorRange(buf, m + 1, n))

\* compute_checksum gone wrong: the payload is left out.
compute_checksum_header(buf) == Xor8(buf[1], buf[2])

compute_checksum(buf) ==
    XorRange(buf, 1, get_buffer_length(buf) - CHECKSUM_SIZE)

\* set_payload_length gone wrong: the length is stored modulo 256, never refused.
set_payload_length_wrapping(buf, n) ==
    [ok |-> TRUE, buf |-> [buf EXCEPT ![MESSAGE_TYPE_SIZE + 1] = n % 256]]

\* [ok, buf]: fails, leaving the length byte alone, above PAYLOAD_MAX_SIZE.
set_payload_length(buf, n) ==
    IF n > PAYLOAD_MAX_SIZE
    THEN [ok |-> FALSE, buf |-> buf]
    ELSE [ok |-> TRUE, buf |-> [buf EXCEPT ![MESSAGE_TYPE_SIZE + 1] = n]]

\* [n, buf]: n is the number of bytes appended, zero on failure.
append(buf, src) ==
    LET payload_length == get_payload_length(buf)
        r == set_payload_length(buf, payload_length + Len(src))
        offset == MESSAGE_TYPE_SIZE + PAYLOAD_LEN_SIZE + payload_length
    IN  IF ~r.ok THEN [n |-> 0, buf |-> buf]
        ELSE [n |-> Len(src), buf |-> Overwrite(r.buf, offset, src)]

\* read gone wrong: the bytes are taken from the start of the payload.
read_unshifted(buf, offset, size) ==
    IF offset + size > get_payload_length(buf)
    THEN [n |-> 0, bytes |-> <<>>]
    ELSE [n |-> size,
          bytes |-> SubSeq(buf, MESSAGE_TYPE_SIZE + PAYLOAD_LEN_SIZE + 1,
                           MESSAGE_TYPE_SIZE + PAYLOAD_LEN_SIZE + size)]

\* [n, bytes]: n is the number of bytes read, zero when they do not exist.
read(buf, offset, size) ==
    IF offset + size > get_payload_length(buf)
    THEN [n |-> 0, bytes |-> <<>>]
    ELSE [n |-> size,
          bytes |-> SubSeq(buf, MESSAGE_TYPE_SIZE + PAYLOAD_LEN_SIZE + offset + 1,
                           MESSAGE_TYPE_SIZE + PAYLOAD_LEN_SIZE + offset + size)]

\* finish_message gone wrong: the checksum is not stored.
finish_message_nosum(buf, type) == [buf EXCEPT ![1] = type]

finish_message(buf, type) ==
    LET b1 == [buf EXCEPT ![1] = type]
    IN  [b1 EXCEPT ![get_buffer_length(b1) - CHECKSUM_SIZE + 1] = compute_checksum(b1)]

\* Message::Message(type)
NewMessage(type) ==
    finish_message(set_payload_length(Zeros(MESSAGE_MAX_SIZE), 0).buf, type)

verify_checksum(buf) ==
    buf[get_buffer_length(buf) - CHECKSUM_SIZE + 1] = compute_checksum(buf)

\* A run of append_check(field): stops at the first append that returns zero.
RECURSIVE append_fields(_, _)
append_fields(buf, fields) ==
    IF fields = <<>> THEN [ok |-> TRUE, buf |-> buf]
    ELSE LET r == append(buf, Head(fields))
         IN  IF r.n = 0 THEN [ok |-> FALSE, buf |-> r.buf]
             ELSE append_fields(r.buf, Tail(fields))

\* set_payload_length(0); append_check each field; finish_message(type).
make_message(buf, fields, type) ==
    LET r == append_fields(set_payload_length(buf, 0).buf, fields)
    IN  IF r.ok THEN [ok |-> TRUE, buf |-> finish_message(r.buf, type)] ELSE r

make_ping(buf) == make_message(buf, <<>>, PING)

make_sub_req(buf, params, interval) ==
    make_message(buf, <<LE(params, 2), LE(interval, 2)>>, SUB_REQ)

\* make_sub_res gone wrong: the interval field is not the one given.
make_sub_res_stale(buf, params, interval, uid) ==
    make_message(buf,
        <<LE(params, 2), LE(NO_SUBSCRIPTION, 2), LE(uid.device_id, 2), LE(uid.year, 1),
          uid.random>>, SUB_RES)

\* uid is [device_id, year, random], random being its eight raw bytes.
make_sub_res(buf, params, interval, uid) ==
    make_message(buf,
        <<LE(params, 2), LE(interval, 2), LE(uid.device_id, 2), LE(uid.year, 1),
          uid.random>>, SUB_RES)

make_dev_read(buf, params) == make_message(buf, <<LE(params, 2)>>, DEV_READ)

\* append_params gone wrong: a set bit without a backing span takes a byte.
RECURSIVE param_fields_padded(_, _, _, _)
param_fields_padded(present, params, vals, i) ==
    IF i >= MAX_PARAMETERS THEN <<>>
    ELSE IF present < Pow2(i) THEN <<>>
    ELSE (IF get_bit(present, i) = 1
          THEN <<IF params[i + 1].backed THEN vals[i + 1] ELSE <<0>>>> ELSE <<>>)
         \o param_fields_padded(present, params, vals, i + 1)

\* The fields append_params appends: the map, then the bytes of every set bit
\* whose parameter has a backing span (base non-null), in ascending order.
\* params[i+1] is [backed, size]; vals[i+1] the bytes stored at its base.
\* The passes for the bits above the highest set bit append nothing.
RECURSIVE param_fields(_, _, _, _)
param_fields(present, params, vals, i) ==
    IF i >= MAX_PARAMETERS THEN <<>>
    ELSE IF present < Pow2(i) THEN <<>>
    ELSE (IF get_bit(present, i) = 1 /\ params[i + 1].backed
          THEN <<vals[i + 1]>> ELSE <<>>)
         \o param_fields(present, params, vals, i + 1)

append_params(buf, present, params, vals) ==
    append_fields(buf, <<LE(present, 2)>> \o param_fields(present, params, vals, 0))

make_dev_write(buf, present, params, vals) ==
    LET r == append_params(set_payload_length(buf, 0).buf, present, params, vals)
    IN  IF r.ok THEN [ok |-> TRUE, buf |-> finish_message(r.buf, DEV_WRITE)] ELSE r

make_dev_data(buf, present, params, vals) ==
    LET r == append_params(set_payload_length(buf, 0).buf, present, params, vals)
    IN  IF r.ok THEN [ok |-> TRUE, buf |-> finish_message(r.buf, DEV_DATA)] ELSE r

make_dev_disable(buf) == make_message(buf, <<>>, DEV_DISABLE)

make_hb_req(buf, hb_id) == make_message(buf, <<LE(hb_id, 1)>>, HB_REQ)

\* make_hb_res gone wrong: the id sent is the device's own heartbeat id.
make_hb_res_fixed(buf, hb_id) == make_message(buf, <<LE(255, 1)>>, HB_RES)

make_hb_res(buf, hb_id) == make_message(buf, <<LE(hb_id, 1)>>, HB_RES)

\* make_error gone wrong: the code sent is always the generic one.
make_error_generic(buf, error) == make_message(buf, <<LE(255, 1)>>, ERROR)

make_error(buf, error) == make_message(buf, <<LE(error, 1)>>, ERROR)

\* read_fields gone wrong: a payload longer than the fields is accepted.
RECURSIVE read_fields_lax(_, _, _)
read_fields_lax(buf, offset, sizes) ==
    IF sizes = <<>>
    THEN [ok |-> offset <= get_payload_length(buf), fields |-> <<>>]
    ELSE LET r == read(buf, offset, Head(sizes))
         IN  IF r.n = 0 THEN [ok |-> FALSE, fields |-> <<>>]
             ELSE LET rest == read_fields_lax(buf, offset + Head(sizes), Tail(sizes))
                  IN  [ok |-> rest.ok, fields |-> <<r.bytes>> \o rest.fields]

\* type_check, then read_check of each field size in turn, then the test that
\* the offset reached equals the payload length.  [ok, fields].
RECURSIVE read_fields(_, _, _)
read_fields(buf, offset, sizes) ==
    IF sizes = <<>>
    THEN [ok |-> offset = get_payload_length(buf), fields |-> <<>>]
    ELSE LET r == read(buf, offset, Head(sizes))
         IN  IF r.n = 0 THEN [ok |-> FALSE, fields |-> <<>>]
             ELSE LET rest == read_fields(buf, offset + Head(sizes), Tail(sizes))
                  IN  [ok |-> rest.ok, fields |-> <<r.bytes>> \o rest.fields]

read_message(buf, type, sizes) ==
    IF get_type(buf) # type THEN [ok |-> FALSE, fields |-> <<>>]
    ELSE read_fields(buf, 0, sizes)

\* [ok, params, interval]
read_sub_req(buf) ==
    LET r == read_message(buf, SUB_REQ, <<2, 2>>)
    IN  IF r.ok
        THEN [ok |-> TRUE, params |-> FromLE(r.fields[1]), interval |-> FromLE(r.fields[2])]
        ELSE [ok |-> FALSE, params |-> 0, interval |-> 0]

\* [ok, params, interval, uid]
read_sub_res(buf) ==
    LET r == read_message(buf, SUB_RES, <<2, 2, 2, 1, 8>>)
    IN  IF r.ok
        THEN [ok |-> TRUE, params |-> FromLE(r.fields[1]), interval |-> FromLE(r.fields[2]),
              uid |-> [device_id |-> FromLE(r.fields[3]), year |-> FromLE(r.fields[4]),
                       random |-> r.fields[5]]]
        ELSE [ok |-> FALSE, params |-> 0, interval |-> 0,
              uid |-> [device_id |-> 0, year |-> 0, random |-> <<>>]]

\* [ok, present]
read_dev_read(buf) ==
    LET r == read_message(buf, DEV_READ, <<2>>)
    IN  IF r.ok THEN [ok |-> TRUE, present |-> FromLE(r.fields[1])]
        ELSE [ok |-> FALSE, present |-> 0]

\* [ok, hb_id]
read_hb(buf, type) ==
    LET r == read_message(buf, type, <<1>>)
    IN  IF r.ok THEN [ok |-> TRUE, hb_id |-> FromLE(r.fields[1])]
        ELSE [ok |-> FALSE, hb_id |-> 0]

read_hb_req(buf) == read_hb(buf, HB_REQ)

read_hb_res(buf) == read_hb(buf, HB_RES)

\* [ok, error]
read_error(buf) ==
    LET r == read_message(buf, ERROR, <<1>>)
    IN  IF r.ok THEN [ok |-> TRUE, error |-> FromLE(r.fields[1])]
        ELSE [ok |-> FALSE, error |-> 0]

\* The loop of read_params from bit i on: each set bit's bytes are copied into
\* the parameter's span as soon as they are read, so a later failure leaves the
\* earlier copies in place.  A set bit without a span fails (read_check: !dst).
\* The passes for the bits above the highest set bit read nothing.
RECURSIVE read_params_loop(_, _, _, _, _, _)
read_params_loop(buf, present, params, vals, offset, i) ==
    IF i >= MAX_PARAMETERS \/ present < Pow2(Min(i, MAX_PARAMETERS))
    THEN [ok |-> offset = get_payload_length(buf), vals |-> vals]
    ELSE IF get_bit(present, i) = 0
         THEN read_params_loop(buf, present, params, vals, offset, i + 1)
         ELSE IF ~params[i + 1].backed THEN [ok |-> FALSE, vals |-> vals]
              ELSE LET r == read(buf, offset, params[i + 1].size)
                   IN  IF r.n = 0 THEN [ok |-> FALSE, vals |-> vals]
                       ELSE read_params_loop(buf, present, params,
                                [vals EXCEPT ![i + 1] = r.bytes],
                                offset + params[i + 1].size, i + 1)

\* [ok, present, vals]: present is written even when a later read fails.
read_params(buf, params, vals) ==
    LET r == read(buf, 0, 2)
    IN  IF r.n = 0 THEN [ok |-> FALSE, present |-> 0, vals |-> vals, got |-> FALSE]
        ELSE LET p == FromLE(r.bytes)
                 l == read_params_loop(buf, p, params, vals, 2, 0)
             IN  [ok |-> l.ok, present |-> p, vals |-> l.vals, got |-> TRUE]

read_dev_write(buf, params, vals) ==
    IF get_type(buf) # DEV_WRITE
    THEN [ok |-> FALSE, present |-> 0, vals |-> vals, got |-> FALSE]
    ELSE read_params(buf, params, vals)

read_dev_data(buf, params, vals) ==
    IF get_type(buf) # DEV_DATA
    THEN [ok |-> FALSE, present |-> 0, vals |-> vals, got |-> FALSE]
    ELSE read_params(buf, params, vals)

(***************************************************************************)
(* COBS framing (the cobs library behind cobs.h).  A status is the set of  *)
(* flags the library ORs together; the empty set is COBS_*_OK.             *)
(***************************************************************************)
COBS_DECODE_OK == {}
COBS_DECODE_OUT_BUFFER_OVERFLOW == {"OUT_BUFFER_OVERFLOW"}
COBS_DECODE_ZERO_BYTE_IN_INPUT == {"ZERO_BYTE_IN_INPUT"}
COBS_DECODE_INPUT_TOO_SHORT == {"INPUT_TOO_SHORT"}
COBS_ENCODE_OK == {}
COBS_ENCODE_OUT_BUFFER_OVERFLOW == {"OUT_BUFFER_OVERFLOW"}

HasZero(s) == \E i \in 1..Len(s) : s[i] = 0

\* The chunk length of the two-level iteration below: a C loop of n passes is
\* run as ceil(n / LoopChunk) runs of at most LoopChunk passes each.
LoopChunk == 16

\* One pass of cobs_decode's for(;;).  The state is [r, dst, st, fin]: r the
\* 1-based read position, dst the bytes written so far, st the status flags,
\* fin whether the loop has been left.
cobs_decode_step(src, cap, s) ==
    IF src[s.r] = 0
    THEN [s EXCEPT !.st = @ \cup COBS_DECODE_ZERO_BYTE_IN_INPUT, !.fin = TRUE]
    ELSE LET code == src[s.r] - 1
             remIn == Len(src) - s.r
             st1 == IF code > remIn THEN s.st \cup COBS_DECODE_INPUT_TOO_SHORT ELSE s.st
             n1 == Min(code, remIn)
             remOut == cap - Len(s.dst)
             st2 == IF n1 > remOut THEN st1 \cup COBS_DECODE_OUT_BUFFER_OVERFLOW ELSE st1
             len_code == Min(n1, remOut)
             chunk == SubSeq(src, s.r + 1, s.r + len_code)
             st3 == IF HasZero(chunk) THEN st2 \cup COBS_DECODE_ZERO_BYTE_IN_INPUT ELSE st2
             dst1 == s.dst \o chunk
             r1 == s.r + 1 + len_code
         IN  IF r1 > Len(src)
             THEN [r |-> r1, dst |-> dst1, st |-> st3, fin |-> TRUE]
             ELSE IF len_code # 254
                  THEN IF Len(dst1) >= cap
                       THEN [r |-> r1, dst |-> dst1,
                             st |-> st3 \cup COBS_DECODE_OUT_BUFFER_OVERFLOW, fin |-> TRUE]
                       ELSE [r |-> r1, dst |-> Append(dst1, 0), st |-> st3, fin |-> FALSE]
                  ELSE [r |-> r1, dst |-> dst1, st |-> st3, fin |-> FALSE]

RECURSIVE cobs_decode_run(_, _, _, _)
cobs_decode_run(src, cap, s, k) ==
    IF s.fin \/ k = 0 THEN s
    ELSE cobs_decode_run(src, cap, cobs_decode_step(src, cap, s), k - 1)

RECURSIVE cobs_decode_loop(_, _, _)
cobs_decode_loop(src, cap, s) ==
    IF s.fin THEN s
    ELSE cobs_decode_loop(src, cap, cobs_decode_run(src, cap, s, LoopChunk))

\* cobs_decode(dst, cap, src, len): [out, status], out the bytes written.
cobs_decode(src, cap) ==
    IF Len(src) = 0 THEN [out |-> <<>>, status |-> COBS_DECODE_OK]
    ELSE LET s == cobs_decode_loop(src, cap,
                      [r |-> 1, dst |-> <<>>, st |-> COBS_DECODE_OK, fin |-> FALSE])
         IN  [out |-> s.dst, status |-> s.st]

\* One pass of cobs_encode's for(;;), which consumes one source byte.  The
\* state is [r, done, blk, overflow, fin]: done holds the finished blocks (each
\* with its code byte), blk the bytes of the open block, whose code byte sits
\* at offset Len(done) and is still to be written.
cobs_encode_step(src, cap, s) ==
    IF Len(s.done) + 1 + Len(s.blk) >= cap
    THEN [s EXCEPT !.overflow = TRUE, !.fin = TRUE]
    ELSE IF src[s.r] = 0
         THEN [r |-> s.r + 1, done |-> s.done \o <<Len(s.blk) + 1>> \o s.blk,
               blk |-> <<>>, overflow |-> FALSE, fin |-> s.r + 1 > Len(src)]
         ELSE IF s.r + 1 > Len(src) \/ Len(s.blk) + 2 # 255
              THEN [r |-> s.r + 1, done |-> s.done, blk |-> Append(s.blk, src[s.r]),
                    overflow |-> FALSE, fin |-> s.r + 1 > Len(src)]
              ELSE [r |-> s.r + 1, done |-> s.done \o <<255>> \o Append(s.blk, src[s.r]),
                    blk |-> <<>>, overflow |-> FALSE, fin |-> FALSE]

RECURSIVE cobs_encode_run(_, _, _, _)
cobs_encode_run(src, cap, s, k) ==
    IF s.fin \/ k = 0 THEN s
    ELSE cobs_encode_run(src, cap, cobs_encode_step(src, cap, s), k - 1)

RECURSIVE cobs_encode_loop(_, _, _)
cobs_encode_loop(src, cap, s) ==
    IF s.fin THEN s
    ELSE cobs_encode_loop(src, cap, cobs_encode_run(src, cap, s, LoopChunk))

\* cobs_encode(dst, cap, src, len): [out, status].  After the loop the code
\* byte of the open block is written unless its place is past the buffer.
cobs_encode(src, cap) ==
    LET s0 == [r |-> 1, done |-> <<>>, blk |-> <<>>, overflow |-> FALSE, fin |-> FALSE]
        l == IF Len(src) = 0 THEN s0 ELSE cobs_encode_loop(src, cap, s0)
        st == IF l.overflow THEN COBS_ENCODE_OUT_BUFFER_OVERFLOW ELSE COBS_ENCODE_OK
    IN  IF Len(l.done) >= cap
        THEN [out |-> SubSeq(l.done \o l.blk, 1, cap),
              status |-> COBS_ENCODE_OUT_BUFFER_OVERFLOW]
        ELSE [out |-> l.done \o <<Len(l.blk) + 1>> \o l.blk, status |-> st]

\* encode gone wrong: the checksum byte is not encoded.
encode_unsummed(buf, cap) ==
    LET result == cobs_encode(SubSeq(buf, 1, get_buffer_length(buf) - CHECKSUM_SIZE), cap)
    IN  [ok |-> result.status = COBS_ENCODE_OK, error |-> 0, out |-> result.out]

\* Message::encode: [ok, error, out]; error is meaningful when ~ok, out is
\* what was written to dst and *out_len its length.
encode(buf, cap) ==
    LET result == cobs_encode(SubSeq(buf, 1, get_buffer_length(buf)), cap)
    IN  IF result.status = COBS_ENCODE_OK
        THEN [ok |-> TRUE, error |-> 0, out |-> result.out]
        ELSE IF result.status = COBS_ENCODE_OUT_BUFFER_OVERFLOW
             THEN [ok |-> FALSE, error |-> BUFFER_OVERFLOW, out |-> result.out]
             ELSE [ok |-> FALSE, error |-> GENERIC_ERROR, out |-> result.out]

\* Message::decode: [ok, error, buf, out_len]; the bytes are decoded into the
\* message's own buffer whatever the outcome.
decode(buf, src) ==
    LET result == cobs_decode(src, MESSAGE_MAX_SIZE)
        b == Overwrite(buf, 0, result.out)
        error == IF result.status = COBS_DECODE_OK
                 THEN IF Len(result.out) < MESSAGE_MIN_SIZE THEN UNEXPECTED_DELIMETER
                      ELSE IF ~verify_checksum(b) THEN BAD_CHECKSUM
                      ELSE 0
                 ELSE IF result.status = COBS_DECODE_OUT_BUFFER_OVERFLOW THEN BUFFER_OVERFLOW
                 ELSE IF result.status = COBS_DECODE_INPUT_TOO_SHORT THEN UNEXPECTED_DELIMETER
                 ELSE GENERIC_ERROR
    IN  [ok |-> error = 0, error |-> error, buf |-> b, out_len |-> Len(result.out)]

\* Message::to_cobs / Message::encode: the whole message, capacity given.
to_cobs(buf, cap) == cobs_encode(SubSeq(buf, 1, get_buffer_length(buf)), cap)

\* Message::from_cobs / Message::decode: decodes into the message's own
\* buffer; bytes of buf beyond the decoded length keep their old values.
\* [buf, out_len, status].
from_cobs(buf, src) ==
    LET d == cobs_decode(src, MESSAGE_MAX_SIZE)
    IN  [buf |-> Overwrite(buf, 0, d.out), out_len |-> Len(d.out), status |-> d.status]

(***************************************************************************)
(* SerialHandler (SmartDevice.cpp).  serial_buf is overwritten up to the   *)
(* length used before every use, so its contents are not kept as state.    *)
(* What is written to the transport is a sequence of writes, each a frame  *)
(* followed by MESSAGE_DELIMETER.                                          *)
(***************************************************************************)
MESSAGE_DELIMETER == 0

\* send gone wrong: the encoder is given one byte less than serial_buf holds.
serial_send_tight(m) ==
    LET e == to_cobs(m.buf, ENCODING_MAX_SIZE - 1)
    IN  IF m.ok /\ e.status = COBS_ENCODE_OK
        THEN [ok |-> TRUE, wire |-> <<e.out \o <<MESSAGE_DELIMETER>>>>]
        ELSE [ok |-> FALSE, wire |-> <<GENERIC_ERROR_MESSAGE \o <<MESSAGE_DELIMETER>>>>]

\* send gone wrong: the generic error goes out without its delimiter.
serial_send_unterminated(m) ==
    LET e == to_cobs(m.buf, ENCODING_MAX_SIZE)
    IN  IF m.ok /\ e.status = COBS_ENCODE_OK
        THEN [ok |-> TRUE, wire |-> <<e.out \o <<MESSAGE_DELIMETER>>>>]
        ELSE [ok |-> FALSE, wire |-> <<GENERIC_ERROR_MESSAGE>>]

\* A Message pointer that may be NULL: [ok, buf], NULL when ~ok.
\* SerialHandler::send: [ok, wire].
serial_send(m) ==
    LET e == to_cobs(m.buf, ENCODING_MAX_SIZE)
    IN  IF m.ok /\ e.status = COBS_ENCODE_OK
        THEN [ok |-> TRUE, wire |-> <<e.out \o <<MESSAGE_DELIMETER>>>>]
        ELSE [ok |-> FALSE, wire |-> <<GENERIC_ERROR_MESSAGE \o <<MESSAGE_DELIMETER>>>>]

\* recv gone wrong: the checksum is not looked at.
recv_error_unchecked(d) ==
    IF d.status = COBS_DECODE_OK
    THEN IF d.out_len < MESSAGE_MIN_SIZE THEN UNEXPECTED_DELIMETER ELSE 0
    ELSE IF d.status = COBS_DECODE_OUT_BUFFER_OVERFLOW THEN BUFFER_OVERFLOW
    ELSE IF d.status = COBS_DECODE_INPUT_TOO_SHORT THEN UNEXPECTED_DELIMETER
    ELSE GENERIC_ERROR

\* The error code SerialHandler::recv replies with for a decode result d
\* ([buf, out_len, status]), or 0 when the message is accepted.
recv_error(d) ==
    IF d.status = COBS_DECODE_OK
    THEN IF d.out_len < MESSAGE_MIN_SIZE THEN UNEXPECTED_DELIMETER
         ELSE IF ~verify_checksum(d.buf) THEN BAD_CHECKSUM
         ELSE 0
    ELSE IF d.status = COBS_DECODE_OUT_BUFFER_OVERFLOW THEN BUFFER_OVERFLOW
    ELSE IF d.status = COBS_DECODE_INPUT_TOO_SHORT THEN UNEXPECTED_DELIMETER
    ELSE GENERIC_ERROR

(***************************************************************************)
(* Task (SmartDevice.cpp).  A task is [ready, last, interval].             *)
(***************************************************************************)
MAX_INTERVAL == 1000

\* Task::Task(interval) at clock reading now.
NewTask(interval, now) == [ready |-> FALSE, last |-> now, interval |-> interval]

set_interval(task, interval) == [task EXCEPT !.interval = interval]

next(task) == task.last + task.interval

\* clear_ready gone wrong: the flag is read and left set.
clear_ready_sticky(task) == [ret |-> task.ready, task |-> task]

\* Task::clear_ready: [ret, task].
clear_ready(task) == [ret |-> task.ready, task |-> [task EXCEPT !.ready = FALSE]]

\* The for loop of Task::select from index i (0-based) on: [stop, tasks].
RECURSIVE select_loop(_, _, _, _, _)
select_loop(ntasks, tasks, i, now, stop) ==
    IF i >= ntasks THEN [stop |-> stop, tasks |-> tasks]
    ELSE LET task == IF now >= next(tasks[i + 1])
                     THEN [tasks[i + 1] EXCEPT !.last = now, !.ready = TRUE]
                     ELSE tasks[i + 1]
         IN  select_loop(ntasks, [tasks EXCEPT ![i + 1] = task], i + 1, now,
                         Min(stop, next(task)))

\* select gone wrong: the tasks are updated, the deadline is not lowered to them.
select_unbounded(ntasks, tasks, now) ==
    [stop |-> now + MAX_INTERVAL,
     tasks |-> select_loop(ntasks, tasks, 0, now, now + MAX_INTERVAL).tasks]

\* Task::select(ntasks, tasks) with millis() = now.
select(ntasks, tasks, now) == select_loop(ntasks, tasks, 0, now, now + MAX_INTERVAL)

(***************************************************************************)
(* The device loop (SmartDevice.cpp).                                      *)
(***************************************************************************)
MIN_TIMEOUT == 10
MIN_SERVE_INTERVAL == 40
MIN_SUB_INTERVAL == 40
MAX_SUB_INTERVAL == 250
DISABLE_INTERVAL == 1000
HB_INTERVAL == 1000
HB_ID == 255
YEAR == 1
DEVICE_ID == 128
\* RANDOM, 0xdeadbeefdeadbeef, as the eight bytes memcpy copies.
RANDOM == <<239, 190, 173, 222, 239, 190, 173, 222>>

\* ms_to_us(x)
ms_to_us(x) == x * 1000

\* constrain(x, low, high) of Arduino.h
constrain(x, low, high) == Max(low, Min(x, high))

(***************************************************************************)
(* Bounds of the model and the inputs drawn from the environment.          *)
(***************************************************************************)
\* The clock readings explored.
MaxClock == 1100
\* The number of frames the host sends.
MaxFrames == 2
\* The number of consecutive watchdog ticks between two accepted messages.
MaxTicks == 3
\* The time a frame takes to arrive once a receive has started.
FrameDelay == 35
\* The time a slow external read takes.
SlowRead == 60

\* The device of the tests: a bool, a float and a uint32_t.
NUM_PARAMS == 3
PARAM_SIZES == <<1, 4, 4>>
\* param1 = false, param2 = 1.234f, param3 = 0xc0deba5e
PARAM_INIT == <<<<0>>, <<182, 243, 157, 63>>, <<94, 186, 222, 192>>>>

RECURSIVE Repeat(_, _)
Repeat(x, n) == IF n = 0 THEN <<>> ELSE <<x>> \o Repeat(x, n - 1)

\* SmartDevice::SmartDevice: memset(params, 0), then the declared parameters.
InitParams ==
    SubSeq([i \in 1..MAX_PARAMETERS |->
               IF i <= NUM_PARAMS THEN [backed |-> TRUE, size |-> PARAM_SIZES[i]]
               ELSE [backed |-> FALSE, size |-> 0]], 1, MAX_PARAMETERS)

InitVals == PARAM_INIT \o Repeat(<<>>, MAX_PARAMETERS - NUM_PARAMS)

DeclaredMap == MapOf(0..(NUM_PARAMS - 1))

\* An external read: the time it takes and the parameters it manages to read.
ReadOutcomes ==
    {[d |-> 0, ok |-> DeclaredMap], [d |-> 0, ok |-> 4], [d |-> SlowRead, ok |-> 0]}

\* The parameters an external write manages to write.
WriteMasks == {DeclaredMap, 0}

\* device_read gone wrong: a failed read is reported as done.
device_read_unfailing(params, ro) == MapAnd(params, DeclaredMap)

\* device_read(params) / SmartDevice::read: the bits of params that name a
\* declared parameter and whose read succeeds (ro.ok).
device_read(params, ro) == MapAnd(MapAnd(params, DeclaredMap), ro.ok)

\* device_write(params) / SmartDevice::write.
device_write(params, wm) == MapAnd(MapAnd(params, DeclaredMap), wm)

\* The scheduler on its own, as the task selection test drives it: tasks a, b
\* and c, made at clock reading 1000, and the clock readings it moves through.
TASK_EPOCH == 1000
TASK_INTERVALS == <<600, 1100, 800>>
TimePoints == {1599, 1600, 1900, 2050, 2150, 2200}
\* select(3, tasks) at these clock readings, one after the other.
ExampleCalls == <<1599, 1600, 1900, 2200>>

VARIABLES
    clock,          \* millis()
    active,         \* volatile bool active
    timer,          \* Timer1: [period_us, isr]
    pc,             \* where the main flow is
    buf,            \* SmartDevice::msg
    uid,            \* SmartDevice::uid
    params,         \* SmartDevice::params
    vals,           \* the bytes each parameter's span holds
    subscription,   \* SmartDevice::subscription
    update,         \* SmartDevice::update
    hb,             \* SmartDevice::hb
    stop,           \* loop()'s deadline
    sent,           \* observed: the writes of the current serve_once / of loop() before serving
    tmo,            \* observed: the last value given to Serial.setTimeout
    served,         \* observed: serve_once calls of the running loop() (0, 1, 2 = more)
    rx,             \* observed: the last frame read and how long the read waited
    nframes,        \* observed: frames read so far
    wd,             \* observed: ticks and watchdog disables since setup / the last accepted message
    accepted,       \* observed: messages accepted since setup, and since the last tick
    dis,            \* observed: device_disable calls by setup() and by the running serve_once
    ev,             \* observed: the last step of the main flow
    tnow,           \* scheduler on its own: millis()
    tasks,          \* scheduler on its own: the Task objects
    tret,           \* scheduler on its own: the last call and what it returned
    marked,         \* observed: task i was due at a select since its last clear_ready
    ex              \* observed: how far the calls so far follow ExampleCalls (-1: they do not)

sched == <<tnow, tasks, tret, marked, ex>>

vars == <<clock, active, timer, pc, buf, uid, params, vals, subscription, update, hb,
          stop, sent, tmo, served, rx, nframes, wd, accepted, dis, ev, sched>>

device == <<uid, params>>
obs_rx == <<tmo, rx, nframes>>

Init ==
    /\ clock = 0
    /\ active = TRUE
    /\ timer = [period_us |-> 0, isr |-> "none"]
    /\ pc = "boot"
    /\ buf = NewMessage(PING)
    /\ uid = [device_id |-> DEVICE_ID, year |-> YEAR, random |-> RANDOM]
    /\ params = InitParams
    /\ vals = InitVals
    /\ subscription = NO_PARAMETERS
    /\ update = NewTask(NO_SUBSCRIPTION, 0)
    /\ hb = NewTask(HB_INTERVAL, 0)
    /\ stop = 0
    /\ sent = <<>>
    /\ tmo = 0
    /\ served = 0
    /\ rx = [frame |-> <<>>, waited |-> 0]
    /\ nframes = 0
    /\ wd = [ticks |-> 0, disables |-> 0]
    /\ accepted = [ever |-> FALSE, sinceTick |-> FALSE]
    /\ dis = [setup |-> 0, cmd |-> 0]
    /\ ev = [op |-> "boot", ok |-> TRUE]
    /\ tnow = TASK_EPOCH
    /\ tasks = SubSeq([i \in 1..Len(TASK_INTERVALS) |-> NewTask(TASK_INTERVALS[i], TASK_EPOCH)],
                      1, Len(TASK_INTERVALS))
    /\ tret = [op |-> "none", arg |-> 0, val |-> 0]
    /\ marked = SubSeq([i \in 1..Len(TASK_INTERVALS) |-> FALSE], 1, Len(TASK_INTERVALS))
    /\ ex = 0

\* is_subscribed gone wrong: the update task is always taken to be in use.
is_subscribed_always(upd) == TRUE

is_subscribed(upd) == upd.interval # NO_SUBSCRIPTION

\* set_subscription gone wrong: the interval is stored as requested.
set_subscription_unclamped(upd, present, interval) ==
    [subscription |-> present, update |-> set_interval(upd, interval)]

\* SmartDevice::set_subscription: [subscription, update]; present is what
\* device_read returned for the requested map.
set_subscription(upd, present, interval) ==
    [subscription |-> present,
     update |-> set_interval(upd,
                    IF interval # NO_SUBSCRIPTION
                    THEN constrain(interval, MIN_SUB_INTERVAL, MAX_SUB_INTERVAL)
                    ELSE interval)]

\* The fallback loop of send_data from bit i on.  Each pass builds the message
\* from `present` itself, not from the one-bit map it has just made.
RECURSIVE send_data_split(_, _, _, _, _, _)
send_data_split(b, present, ps, vs, i, acc) ==
    IF i >= MAX_PARAMETERS THEN acc
    ELSE IF get_bit(present, i) = 0 \/ ~acc.ok
         THEN send_data_split(b, present, ps, vs, i + 1, acc)
         ELSE LET m == make_dev_data(acc.buf, present, ps, vs)
                  w == serial_send(m)
              IN  send_data_split(b, present, ps, vs, i + 1,
                      IF m.ok
                      THEN [ok |-> w.ok, buf |-> m.buf, wire |-> acc.wire \o w.wire]
                      ELSE [ok |-> FALSE, buf |-> m.buf, wire |-> acc.wire])

\* SmartDevice::send_data after its device_read: [ok, buf, wire].
send_data(b, present, ps, vs) ==
    LET m == make_dev_data(b, present, ps, vs)
        w == serial_send(m)
    IN  IF m.ok
        THEN [ok |-> w.ok, buf |-> m.buf, wire |-> w.wire]
        ELSE send_data_split(b, present, ps, vs, 0,
                 [ok |-> TRUE, buf |-> m.buf, wire |-> <<>>])

\* Counting up to "more than one".
Bump(n) == IF n < 2 THEN n + 1 ELSE n

\* setup gone wrong: the flag is left cleared.
Setup_inactive ==
    /\ pc = "boot"
    /\ pc' = "idle"
    /\ dis' = [dis EXCEPT !.setup = @ + 1]
    /\ timer' = [period_us |-> ms_to_us(DISABLE_INTERVAL), isr |-> "maybe_disable"]
    /\ active' = FALSE
    /\ ev' = [op |-> "setup", ok |-> TRUE]
    /\ UNCHANGED <<sched, clock, buf, device, vals, subscription, update, hb, stop, sent,
                   served, obs_rx, wd, accepted>>

\* SmartDevice::setup.  The first timer interrupt comes a whole period after
\* Timer1.initialize, so none falls between attachInterrupt and the store.
Setup ==
    /\ pc = "boot"
    /\ pc' = "idle"
    /\ dis' = [dis EXCEPT !.setup = @ + 1]
    /\ timer' = [period_us |-> ms_to_us(DISABLE_INTERVAL), isr |-> "maybe_disable"]
    /\ active' = TRUE
    /\ ev' = [op |-> "setup", ok |-> TRUE]
    /\ UNCHANGED <<sched, clock, buf, device, vals, subscription, update, hb, stop, sent,
                   served, obs_rx, wd, accepted>>

\* maybe_disable gone wrong: the flag is not looked at.
watchdog_check_eager(act) == [active |-> FALSE, disabled |-> TRUE]

\* maybe_disable gone wrong: the flag is not cleared.
watchdog_check_keep(act) == [active |-> act, disabled |-> ~act]

\* SmartDevice::maybe_disable, the timer interrupt: [active, disabled].
watchdog_check(act) == [active |-> FALSE, disabled |-> ~act]

maybe_disable ==
    /\ timer.isr = "maybe_disable"
    /\ wd.ticks < MaxTicks
    /\ active' = watchdog_check(active).active
    /\ wd' = [ticks |-> wd.ticks + 1,
              disables |-> wd.disables + (IF watchdog_check(active).disabled THEN 1 ELSE 0)]
    /\ accepted' = [accepted EXCEPT !.sinceTick = FALSE]
    /\ UNCHANGED <<sched, clock, timer, pc, buf, device, vals, subscription, update, hb, stop,
                   sent, served, obs_rx, dis, ev>>

\* The deadline loop() serves until, given what select returned.
loop_deadline(sel_stop, now) == sel_stop

\* loop gone wrong: the push carries the values the parameters had at first.
LoopBegin_stale ==
    /\ pc = "idle"
    /\ LET sel == select(IF is_subscribed(update) THEN 2 ELSE 1, <<hb, update>>, clock)
           hb1 == clear_ready(sel.tasks[1])
           up1 == clear_ready(sel.tasks[2])
           m1 == make_hb_req(buf, HB_ID)
           w1 == IF hb1.ret THEN serial_send(m1).wire ELSE <<>>
           buf1 == IF hb1.ret THEN m1.buf ELSE buf
       IN  \E ro \in IF up1.ret THEN ReadOutcomes ELSE {[d |-> 0, ok |-> 0]} :
             LET sd == send_data(buf1, device_read(subscription, ro), params, InitVals)
                 w2 == IF ~up1.ret THEN <<>>
                       ELSE IF sd.ok THEN sd.wire
                       ELSE sd.wire \o serial_send([ok |-> FALSE, buf |-> sd.buf]).wire
             IN  /\ clock + ro.d <= MaxClock
                 /\ clock' = clock + ro.d
                 /\ hb' = hb1.task
                 /\ update' = up1.task
                 /\ buf' = IF up1.ret THEN sd.buf ELSE buf1
                 /\ sent' = w1 \o w2
                 /\ stop' = loop_deadline(sel.stop, clock + ro.d)
                 /\ ev' = [op |-> "loop", ok |-> TRUE]
    /\ served' = 0
    /\ pc' = "serve"
    /\ UNCHANGED <<sched, active, timer, device, vals, subscription, obs_rx, wd, accepted, dis>>

\* loop gone wrong: the subscription push is written before the heartbeat request.
LoopBegin_pushfirst ==
    /\ pc = "idle"
    /\ LET sel == select(IF is_subscribed(update) THEN 2 ELSE 1, <<hb, update>>, clock)
           hb1 == clear_ready(sel.tasks[1])
           up1 == clear_ready(sel.tasks[2])
           m1 == make_hb_req(buf, HB_ID)
           w1 == IF hb1.ret THEN serial_send(m1).wire ELSE <<>>
           buf1 == IF hb1.ret THEN m1.buf ELSE buf
       IN  \E ro \in IF up1.ret THEN ReadOutcomes ELSE {[d |-> 0, ok |-> 0]} :
             LET sd == send_data(buf1, device_read(subscription, ro), params, vals)
                 w2 == IF ~up1.ret THEN <<>>
                       ELSE IF sd.ok THEN sd.wire
                       ELSE sd.wire \o serial_send([ok |-> FALSE, buf |-> sd.buf]).wire
             IN  /\ clock + ro.d <= MaxClock
                 /\ clock' = clock + ro.d
                 /\ hb' = hb1.task
                 /\ update' = up1.task
                 /\ buf' = IF up1.ret THEN sd.buf ELSE buf1
                 /\ sent' = w2 \o w1
                 /\ stop' = loop_deadline(sel.stop, clock + ro.d)
                 /\ ev' = [op |-> "loop", ok |-> TRUE]
    /\ served' = 0
    /\ pc' = "serve"
    /\ UNCHANGED <<sched, active, timer, device, vals, subscription, obs_rx, wd, accepted, dis>>

\* SmartDevice::loop up to its while loop: select, the heartbeat request and
\* the subscription push.
LoopBegin ==
    /\ pc = "idle"
    /\ LET sel == select(IF is_subscribed(update) THEN 2 ELSE 1, <<hb, update>>, clock)
           hb1 == clear_ready(sel.tasks[1])
           up1 == clear_ready(sel.tasks[2])
           m1 == make_hb_req(buf, HB_ID)
           w1 == IF hb1.ret THEN serial_send(m1).wire ELSE <<>>
           buf1 == IF hb1.ret THEN m1.buf ELSE buf
       IN  \E ro \in IF up1.ret THEN ReadOutcomes ELSE {[d |-> 0, ok |-> 0]} :
             LET sd == send_data(buf1, device_read(subscription, ro), params, vals)
                 w2 == IF ~up1.ret THEN <<>>
                       ELSE IF sd.ok THEN sd.wire
                       ELSE sd.wire \o serial_send([ok |-> FALSE, buf |-> sd.buf]).wire
             IN  /\ clock + ro.d <= MaxClock
                 /\ clock' = clock + ro.d
                 /\ hb' = hb1.task
                 /\ update' = up1.task
                 /\ buf' = IF up1.ret THEN sd.buf ELSE buf1
                 /\ sent' = w1 \o w2
                 /\ stop' = loop_deadline(sel.stop, clock + ro.d)
                 /\ ev' = [op |-> "loop", ok |-> TRUE]
    /\ served' = 0
    /\ pc' = "serve"
    /\ UNCHANGED <<sched, active, timer, device, vals, subscription, obs_rx, wd, accepted, dis>>

\* The while loop of loop() ends.
LoopEnd ==
    /\ pc = "serve"
    /\ clock >= stop
    /\ pc' = "idle"
    /\ ev' = [op |-> "loop_end", ok |-> TRUE]
    /\ UNCHANGED <<sched, clock, active, timer, buf, device, vals, subscription, update, hb,
                   stop, sent, served, obs_rx, wd, accepted, dis>>

\* serve_once gone wrong: a short timeout is handed to the receive all the same.
ServeWait_polling ==
    /\ pc = "serve"
    /\ clock < stop
    /\ stop - clock < MIN_TIMEOUT
    /\ clock' = stop
    /\ tmo' = stop - clock
    /\ rx' = [frame |-> <<>>, waited |-> stop - clock]
    /\ served' = Bump(served)
    /\ sent' = <<>>
    /\ dis' = [dis EXCEPT !.cmd = 0]
    /\ pc' = "recv"
    /\ ev' = [op |-> "read", ok |-> TRUE]
    /\ UNCHANGED <<sched, active, timer, buf, device, vals, subscription, update, hb,
                   stop, nframes, wd, accepted>>

\* serve_once(timeout) with timeout < MIN_TIMEOUT: delay(timeout).
ServeWait ==
    /\ pc = "serve"
    /\ clock < stop
    /\ stop - clock < MIN_TIMEOUT
    /\ clock' = stop
    /\ served' = Bump(served)
    /\ sent' = <<>>
    /\ dis' = [dis EXCEPT !.cmd = 0]
    /\ ev' = [op |-> "wait", ok |-> TRUE]
    /\ UNCHANGED <<sched, active, timer, pc, buf, device, vals, subscription, update, hb, stop,
                   obs_rx, wd, accepted>>

\* What the transport can deliver to a receive that waits up to timeout:
\* nothing for the whole timeout, or a frame after FrameDelay.
Arrivals(timeout, frames) ==
    {[frame |-> <<>>, waited |-> timeout]}
    \cup (IF nframes < MaxFrames /\ FrameDelay <= timeout
          THEN {[frame |-> f, waited |-> FrameDelay] : f \in frames}
          ELSE {})

\* serve_once with timeout >= MIN_TIMEOUT, up to the return of
\* Serial.readBytesUntil in SerialHandler::recv.
ReadBytes(frames) ==
    /\ pc = "serve"
    /\ clock < stop
    /\ stop - clock >= MIN_TIMEOUT
    /\ \E a \in Arrivals(stop - clock, frames) :
        /\ clock + a.waited <= MaxClock
        /\ clock' = clock + a.waited
        /\ rx' = a
        /\ nframes' = IF a.waited < stop - clock \/ Len(a.frame) > 0
                      THEN nframes + 1 ELSE nframes
    /\ tmo' = stop - clock
    /\ served' = Bump(served)
    /\ sent' = <<>>
    /\ dis' = [dis EXCEPT !.cmd = 0]
    /\ pc' = "recv"
    /\ ev' = [op |-> "read", ok |-> TRUE]
    /\ UNCHANGED <<sched, active, timer, buf, device, vals, subscription, update, hb, stop,
                   wd, accepted>>

\* recv gone wrong: the clock does not count the time a receive of no bytes
\* has waited.
RecvNothing_timeless ==
    /\ pc = "recv"
    /\ Len(rx.frame) = 0
    /\ clock' = clock - rx.waited
    /\ pc' = "serve"
    /\ ev' = [op |-> "recv_nothing", ok |-> FALSE]
    /\ UNCHANGED <<sched, active, timer, buf, device, vals, subscription, update, hb,
                   stop, sent, served, obs_rx, wd, accepted, dis>>

\* recv gone wrong: a read of no bytes counts as a sign of life.
RecvNothing_alive ==
    /\ pc = "recv"
    /\ Len(rx.frame) = 0
    /\ active' = TRUE
    /\ pc' = "serve"
    /\ ev' = [op |-> "recv_nothing", ok |-> FALSE]
    /\ UNCHANGED <<sched, clock, timer, buf, device, vals, subscription, update, hb,
                   stop, sent, served, obs_rx, wd, accepted, dis>>

\* SerialHandler::recv with bytes_read = 0: serve_once has nothing to do.
RecvNothing ==
    /\ pc = "recv"
    /\ Len(rx.frame) = 0
    /\ pc' = "serve"
    /\ ev' = [op |-> "recv_nothing", ok |-> FALSE]
    /\ UNCHANGED <<sched, clock, active, timer, buf, device, vals, subscription, update, hb,
                   stop, sent, served, obs_rx, wd, accepted, dis>>

\* SerialHandler::recv of a frame that fails to decode: the error reply is
\* sent and serve_once returns.
RecvReject ==
    /\ pc = "recv"
    /\ Len(rx.frame) > 0
    /\ LET d == from_cobs(buf, rx.frame)
           m == make_error(d.buf, recv_error(d))
       IN  /\ recv_error(d) # 0
           /\ buf' = m.buf
           /\ sent' = serial_send(m).wire
    /\ pc' = "serve"
    /\ ev' = [op |-> "recv_reject", ok |-> FALSE]
    /\ UNCHANGED <<sched, clock, active, timer, device, vals, subscription, update, hb, stop,
                   served, obs_rx, wd, accepted, dis>>

\* SerialHandler::recv of a frame that decodes and passes the checksum, up to
\* the store to `active`.
RecvOk ==
    /\ pc = "recv"
    /\ Len(rx.frame) > 0
    /\ LET d == from_cobs(buf, rx.frame)
       IN  /\ recv_error(d) = 0
           /\ buf' = d.buf
    /\ pc' = "accept"
    /\ ev' = [op |-> "recv_ok", ok |-> TRUE]
    /\ UNCHANGED <<sched, clock, active, timer, device, vals, subscription, update, hb, stop,
                   sent, served, obs_rx, wd, accepted, dis>>

\* recv gone wrong: the message is accepted and the flag is not set.
Accept_silent ==
    /\ pc = "accept"
    /\ pc' = "dispatch"
    /\ wd' = [ticks |-> 0, disables |-> 0]
    /\ accepted' = [ever |-> TRUE, sinceTick |-> TRUE]
    /\ ev' = [op |-> "accept", ok |-> TRUE]
    /\ UNCHANGED <<sched, active, clock, timer, buf, device, vals, subscription, update, hb,
                   stop, sent, served, obs_rx, dis>>

\* SerialHandler::recv: active = true; return true.
Accept ==
    /\ pc = "accept"
    /\ active' = TRUE
    /\ pc' = "dispatch"
    /\ wd' = [ticks |-> 0, disables |-> 0]
    /\ accepted' = [ever |-> TRUE, sinceTick |-> TRUE]
    /\ ev' = [op |-> "accept", ok |-> TRUE]
    /\ UNCHANGED <<sched, clock, timer, buf, device, vals, subscription, update, hb, stop,
                   sent, served, obs_rx, dis>>

\* The tail of serve_once gone wrong: the message is sent whatever msg_ok is.
Reply_echo(m) == serial_send([ok |-> TRUE, buf |-> m.buf]).wire

\* The tail of serve_once: send(msg_ok ? &msg : NULL).
Reply(m) == serial_send(m).wire

\* case SUB_REQ, falling through to case PING.
ServeSubReq ==
    /\ pc = "dispatch"
    /\ get_type(buf) = SUB_REQ
    /\ LET r == read_sub_req(buf)
       IN  \E ro \in IF r.ok THEN ReadOutcomes ELSE {[d |-> 0, ok |-> 0]} :
             LET sub == IF r.ok
                        THEN set_subscription(update, device_read(r.params, ro), r.interval)
                        ELSE [subscription |-> subscription, update |-> update]
                 m == IF r.ok
                      THEN make_sub_res(buf, sub.subscription, sub.update.interval, uid)
                      ELSE [ok |-> FALSE, buf |-> buf]
             IN  /\ clock + ro.d <= MaxClock
                 /\ clock' = clock + ro.d
                 /\ subscription' = sub.subscription
                 /\ update' = sub.update
                 /\ buf' = m.buf
                 /\ sent' = Reply(m)
                 /\ ev' = [op |-> "sub_req", ok |-> r.ok]
    /\ pc' = "serve"
    /\ UNCHANGED <<sched, active, timer, device, vals, hb, stop, served, obs_rx, wd, accepted, dis>>

\* case PING gone wrong: the subscription is dropped on the way.
ServePing_reset ==
    /\ pc = "dispatch"
    /\ get_type(buf) = PING
    /\ LET m == make_sub_res(buf, NO_PARAMETERS, NO_SUBSCRIPTION, uid)
       IN  /\ buf' = m.buf
           /\ sent' = Reply(m)
    /\ subscription' = NO_PARAMETERS
    /\ update' = set_interval(update, NO_SUBSCRIPTION)
    /\ ev' = [op |-> "ping", ok |-> TRUE]
    /\ pc' = "serve"
    /\ UNCHANGED <<sched, clock, active, timer, device, vals, hb, stop,
                   served, obs_rx, wd, accepted, dis>>

\* case PING.
ServePing ==
    /\ pc = "dispatch"
    /\ get_type(buf) = PING
    /\ LET m == make_sub_res(buf, subscription, update.interval, uid)
       IN  /\ buf' = m.buf
           /\ sent' = Reply(m)
    /\ ev' = [op |-> "ping", ok |-> TRUE]
    /\ pc' = "serve"
    /\ UNCHANGED <<sched, clock, active, timer, device, vals, subscription, update, hb, stop,
                   served, obs_rx, wd, accepted, dis>>

\* case DEV_WRITE gone wrong: the carried values are not stored.
ServeDevWrite_unstored ==
    /\ pc = "dispatch"
    /\ get_type(buf) = DEV_WRITE
    /\ LET r == read_dev_write(buf, params, vals)
       IN  \E ro \in IF r.ok THEN ReadOutcomes ELSE {[d |-> 0, ok |-> 0]},
              wm \in IF r.ok THEN WriteMasks ELSE {0} :
             LET sd == send_data(buf, device_read(device_write(r.present, wm), ro),
                                 params, vals)
                 ok == r.ok /\ sd.ok
             IN  /\ clock + ro.d <= MaxClock
                 /\ clock' = clock + ro.d
                 /\ vals' = vals
                 /\ buf' = IF r.ok THEN sd.buf ELSE buf
                 /\ sent' = (IF r.ok THEN sd.wire ELSE <<>>)
                            \o (IF ok THEN <<>> ELSE Reply([ok |-> FALSE, buf |-> buf]))
                 /\ ev' = [op |-> "dev_write", ok |-> ok]
    /\ pc' = "serve"
    /\ UNCHANGED <<sched, active, timer, device, subscription, update, hb, stop, served,
                   obs_rx, wd, accepted, dis>>

\* case DEV_WRITE.
ServeDevWrite ==
    /\ pc = "dispatch"
    /\ get_type(buf) = DEV_WRITE
    /\ LET r == read_dev_write(buf, params, vals)
       IN  \E ro \in IF r.ok THEN ReadOutcomes ELSE {[d |-> 0, ok |-> 0]},
              wm \in IF r.ok THEN WriteMasks ELSE {0} :
             LET sd == send_data(buf, device_read(device_write(r.present, wm), ro),
                                 params, r.vals)
                 ok == r.ok /\ sd.ok
             IN  /\ clock + ro.d <= MaxClock
                 /\ clock' = clock + ro.d
                 /\ vals' = r.vals
                 /\ buf' = IF r.ok THEN sd.buf ELSE buf
                 /\ sent' = (IF r.ok THEN sd.wire ELSE <<>>)
                            \o (IF ok THEN <<>> ELSE Reply([ok |-> FALSE, buf |-> buf]))
                 /\ ev' = [op |-> "dev_write", ok |-> ok]
    /\ pc' = "serve"
    /\ UNCHANGED <<sched, active, timer, device, subscription, update, hb, stop, served,
                   obs_rx, wd, accepted, dis>>

\* case DEV_READ gone wrong: the requested map is sent without the external read.
ServeDevRead_unread ==
    /\ pc = "dispatch"
    /\ get_type(buf) = DEV_READ
    /\ LET r == read_dev_read(buf)
       IN  \E ro \in IF r.ok THEN ReadOutcomes ELSE {[d |-> 0, ok |-> 0]} :
             LET sd == send_data(buf, r.present, params, vals)
                 ok == r.ok /\ sd.ok
             IN  /\ clock + ro.d <= MaxClock
                 /\ clock' = clock + ro.d
                 /\ buf' = IF r.ok THEN sd.buf ELSE buf
                 /\ sent' = (IF r.ok THEN sd.wire ELSE <<>>)
                            \o (IF ok THEN <<>> ELSE Reply([ok |-> FALSE, buf |-> buf]))
                 /\ ev' = [op |-> "dev_read", ok |-> ok]
    /\ pc' = "serve"
    /\ UNCHANGED <<sched, active, timer, device, vals, subscription, update, hb, stop, served,
                   obs_rx, wd, accepted, dis>>

\* case DEV_READ.
ServeDevRead ==
    /\ pc = "dispatch"
    /\ get_type(buf) = DEV_READ
    /\ LET r == read_dev_read(buf)
       IN  \E ro \in IF r.ok THEN ReadOutcomes ELSE {[d |-> 0, ok |-> 0]} :
             LET sd == send_data(buf, device_read(r.present, ro), params, vals)
                 ok == r.ok /\ sd.ok
             IN  /\ clock + ro.d <= MaxClock
                 /\ clock' = clock + ro.d
                 /\ buf' = IF r.ok THEN sd.buf ELSE buf
                 /\ sent' = (IF r.ok THEN sd.wire ELSE <<>>)
                            \o (IF ok THEN <<>> ELSE Reply([ok |-> FALSE, buf |-> buf]))
                 /\ ev' = [op |-> "dev_read", ok |-> ok]
    /\ pc' = "serve"
    /\ UNCHANGED <<sched, active, timer, device, vals, subscription, update, hb, stop, served,
                   obs_rx, wd, accepted, dis>>

\* case DEV_DISABLE gone wrong: a break in place of the return.
ServeDevDisable_reply ==
    /\ pc = "dispatch"
    /\ get_type(buf) = DEV_DISABLE
    /\ dis' = [dis EXCEPT !.cmd = @ + 1]
    /\ sent' = Reply([ok |-> TRUE, buf |-> buf])
    /\ ev' = [op |-> "dev_disable", ok |-> TRUE]
    /\ pc' = "serve"
    /\ UNCHANGED <<sched, clock, active, timer, buf, device, vals, subscription, update, hb,
                   stop, served, obs_rx, wd, accepted>>

\* case DEV_DISABLE: return device_disable().
ServeDevDisable ==
    /\ pc = "dispatch"
    /\ get_type(buf) = DEV_DISABLE
    /\ dis' = [dis EXCEPT !.cmd = @ + 1]
    /\ ev' = [op |-> "dev_disable", ok |-> TRUE]
    /\ pc' = "serve"
    /\ UNCHANGED <<sched, clock, active, timer, buf, device, vals, subscription, update, hb,
                   stop, sent, served, obs_rx, wd, accepted>>

\* case HB_REQ.
ServeHbReq ==
    /\ pc = "dispatch"
    /\ get_type(buf) = HB_REQ
    /\ LET r == read_hb_req(buf)
           m == IF r.ok THEN make_hb_res(buf, r.hb_id) ELSE [ok |-> FALSE, buf |-> buf]
       IN  /\ buf' = m.buf
           /\ sent' = Reply(m)
           /\ ev' = [op |-> "hb_req", ok |-> m.ok]
    /\ pc' = "serve"
    /\ UNCHANGED <<sched, clock, active, timer, device, vals, subscription, update, hb, stop,
                   served, obs_rx, wd, accepted, dis>>

\* case HB_RES: the break reaches the send at the end of serve_once.
ServeHbRes ==
    /\ pc = "dispatch"
    /\ get_type(buf) = HB_RES
    /\ LET r == read_hb_res(buf)
       IN  /\ sent' = Reply([ok |-> r.ok, buf |-> buf])
           /\ ev' = [op |-> "hb_res", ok |-> r.ok]
    /\ pc' = "serve"
    /\ UNCHANGED <<sched, clock, active, timer, buf, device, vals, subscription, update, hb,
                   stop, served, obs_rx, wd, accepted, dis>>

HandledTypes == {SUB_REQ, PING, DEV_WRITE, DEV_READ, DEV_DISABLE, HB_REQ, HB_RES}

\* The error code serve_once names ILLEGAL_TYPE: the invalid-type code.
ILLEGAL_TYPE == INVALID_TYPE

\* default gone wrong: the message is answered as a PING is.
ServeDefault_ping ==
    /\ pc = "dispatch"
    /\ get_type(buf) \notin HandledTypes
    /\ LET m == make_sub_res(buf, subscription, update.interval, uid)
       IN  /\ buf' = m.buf
           /\ sent' = Reply(m)
           /\ ev' = [op |-> "default", ok |-> m.ok]
    /\ pc' = "serve"
    /\ UNCHANGED <<sched, clock, active, timer, device, vals, subscription, update, hb, stop,
                   served, obs_rx, wd, accepted, dis>>

\* default.
ServeDefault ==
    /\ pc = "dispatch"
    /\ get_type(buf) \notin HandledTypes
    /\ LET m == make_error(buf, ILLEGAL_TYPE)
       IN  /\ buf' = m.buf
           /\ sent' = Reply(m)
           /\ ev' = [op |-> "default", ok |-> m.ok]
    /\ pc' = "serve"
    /\ UNCHANGED <<sched, clock, active, timer, device, vals, subscription, update, hb, stop,
                   served, obs_rx, wd, accepted, dis>>

(***************************************************************************)
(* The frames the host sends (the bytes before the delimiter).             *)
(***************************************************************************)
Frame(m) == to_cobs(m.buf, ENCODING_MAX_SIZE).out

Blank == Zeros(MESSAGE_MAX_SIZE)

\* The bytes written to param1 and param3 by the DEV_WRITE frame.
WRITE_VALS == <<<<1>>, <<0, 0, 0, 0>>, <<239, 190, 173, 222>>>>
             \o Repeat(<<>>, MAX_PARAMETERS - NUM_PARAMS)

PING_FRAME == Frame(make_ping(Blank))
SUB_REQ_OFF == Frame(make_sub_req(Blank, 7, 0))
SUB_REQ_LOW == Frame(make_sub_req(Blank, 65281, 1))
SUB_REQ_MID == Frame(make_sub_req(Blank, 6, 100))
SUB_REQ_HIGH == Frame(make_sub_req(Blank, 3, 10000))
SUB_REQ_SHORT == Frame(make_message(Blank, <<LE(7, 2), LE(100, 1)>>, SUB_REQ))
DEV_READ_FRAME == Frame(make_dev_read(Blank, 13))
DEV_WRITE_FRAME == Frame(make_dev_write(Blank, 5, InitParams, WRITE_VALS))
DEV_WRITE_UNBACKED == Frame(make_message(Blank, <<LE(9, 2), <<1>>>>, DEV_WRITE))
DEV_DISABLE_FRAME == Frame(make_dev_disable(Blank))
HB_REQ_FRAME == Frame(make_hb_req(Blank, 66))
HB_RES_FRAME == Frame(make_hb_res(Blank, HB_ID))
UNSUPPORTED_FRAME == Frame([ok |-> TRUE, buf |-> NewMessage(128)])
BAD_CHECKSUM_FRAME == <<2, 16, 2, 17>>
TRUNCATED_FRAME == <<2, 16, 1>>
SHORT_INPUT_FRAME == <<255>>
\* 258 decoded bytes: more than a message buffer holds.
OVERFLOW_FRAME == <<254>> \o Fill(253, 170) \o <<6>> \o Fill(5, 170)
EMPTY_FRAME == <<>>

Frames ==
    {PING_FRAME, SUB_REQ_OFF, SUB_REQ_LOW, SUB_REQ_MID, SUB_REQ_HIGH, SUB_REQ_SHORT,
     DEV_READ_FRAME, DEV_WRITE_FRAME, DEV_WRITE_UNBACKED, DEV_DISABLE_FRAME,
     HB_REQ_FRAME, HB_RES_FRAME, UNSUPPORTED_FRAME, BAD_CHECKSUM_FRAME,
     TRUNCATED_FRAME, SHORT_INPUT_FRAME, OVERFLOW_FRAME, EMPTY_FRAME}

(***************************************************************************)
(* The scheduler on its own.                                               *)
(***************************************************************************)
devvars == <<clock, active, timer, pc, buf, uid, params, vals, subscription, update, hb,
             stop, sent, tmo, served, rx, nframes, wd, accepted, dis, ev>>

\* The clock moves on.
Advance ==
    /\ \E t \in TimePoints : t > tnow /\ tnow' = t
    /\ UNCHANGED <<devvars, tasks, tret, marked, ex>>

\* Is task i among the first n given and due at clock reading now?
Due(ts, n, i, now) == i <= n /\ now >= ts[i].last + ts[i].interval

\* Task::select(n, tasks)
Select(n) ==
    /\ tasks' = select(n, tasks, tnow).tasks
    /\ tret' = [op |-> "select", arg |-> n, val |-> select(n, tasks, tnow).stop]
    /\ marked' = SubSeq([i \in 1..Len(tasks) |-> marked[i] \/ Due(tasks, n, i, tnow)],
                        1, Len(tasks))
    /\ ex' = IF ex >= 0 /\ ex < Len(ExampleCalls) /\ n = Len(tasks)
                /\ tnow = ExampleCalls[ex + 1]
             THEN ex + 1 ELSE -1
    /\ UNCHANGED <<devvars, tnow>>

\* tasks[i].clear_ready()
ClearReady(i) ==
    /\ tasks' = [tasks EXCEPT ![i] = clear_ready(tasks[i]).task]
    /\ tret' = [op |-> "clear_ready", arg |-> i, val |-> IF clear_ready(tasks[i]).ret THEN 1 ELSE 0]
    /\ marked' = [marked EXCEPT ![i] = FALSE]
    /\ UNCHANGED <<devvars, tnow, ex>>

NextTask ==
    \/ Advance
    \/ \E n \in 0..Len(tasks) : Select(n)
    \/ \E i \in 1..Len(tasks) : ClearReady(i)

SpecTask == Init /\ [][NextTask]_vars

Next ==
    \/ Setup
    \/ maybe_disable
    \/ LoopBegin
    \/ LoopEnd
    \/ ServeWait
    \/ ReadBytes(Frames)
    \/ RecvNothing
    \/ RecvReject
    \/ RecvOk
    \/ Accept
    \/ ServeSubReq
    \/ ServePing
    \/ ServeDevWrite
    \/ ServeDevRead
    \/ ServeDevDisable
    \/ ServeHbReq
    \/ ServeHbRes
    \/ ServeDefault

Spec == Init /\ [][Next]_vars

(***************************************************************************)
(* A host that sends heartbeat requests only, with every heartbeat id.     *)
(***************************************************************************)
HbReqFrames == {Frame(make_hb_req(Blank, x)) : x \in Byte}

NextHb ==
    \/ Setup
    \/ LoopBegin
    \/ LoopEnd
    \/ ReadBytes(HbReqFrames)
    \/ RecvNothing
    \/ RecvOk
    \/ Accept
    \/ ServeHbReq

SpecHb == Init /\ [][NextHb]_vars

(***************************************************************************)
(* A host that sends messages the device does not handle: every type byte  *)
(* outside HandledTypes with an empty payload, the SUB_RES and DEV_DATA of *)
(* the tests and an ERROR; and a SUB_REQ, so that a subscription exists.   *)
(***************************************************************************)
SUB_RES_FRAME ==
    Frame(make_sub_res(Blank, 65535, 128,
                       [device_id |-> 0, year |-> 0, random |-> Zeros(8)]))
DEV_DATA_FRAME == Frame(make_message(Blank, <<LE(NO_PARAMETERS, 2)>>, DEV_DATA))
ERROR_FRAME == Frame(make_error(Blank, BAD_CHECKSUM))

UnhandledFrames ==
    {Frame([ok |-> TRUE, buf |-> NewMessage(t)]) : t \in Byte \ HandledTypes}
    \cup {SUB_RES_FRAME, DEV_DATA_FRAME, ERROR_FRAME, SUB_REQ_LOW}

NextUnhandled ==
    \/ Setup
    \/ LoopBegin
    \/ LoopEnd
    \/ ServeWait
    \/ ReadBytes(UnhandledFrames)
    \/ RecvNothing
    \/ RecvOk
    \/ Accept
    \/ ServeSubReq
    \/ ServeDefault

SpecUnhandled == Init /\ [][NextUnhandled]_vars

(***************************************************************************)
(* A host that sends DEV_WRITE only: every map over the declared           *)
(* parameters with two sets of values, a set bit without a parameter, and  *)
(* a payload cut short.                                                    *)
(***************************************************************************)
OTHER_VALS == <<<<0>>, <<1, 2, 0, 4>>, <<255, 0, 255, 0>>>>
              \o Repeat(<<>>, MAX_PARAMETERS - NUM_PARAMS)

DEV_WRITE_SHORT == Frame(make_message(Blank, <<LE(2, 2), <<1, 2>>>>, DEV_WRITE))

WriteFrames ==
    {Frame(make_dev_write(Blank, p, InitParams, v)) :
        p \in 0..DeclaredMap, v \in {WRITE_VALS, OTHER_VALS}}
    \cup {DEV_WRITE_UNBACKED, DEV_WRITE_SHORT}

NextWrite ==
    \/ Setup
    \/ LoopBegin
    \/ LoopEnd
    \/ ReadBytes(WriteFrames)
    \/ RecvNothing
    \/ RecvOk
    \/ Accept
    \/ ServeDevWrite

SpecWrite == Init /\ [][NextWrite]_vars

(***************************************************************************)
(* The message codec on its own, driven as test_message.cpp drives it: a   *)
(* message is constructed, built by one make_<kind> call and then read,    *)
(* encoded, decoded, appended to or sent.  pc is "fresh" after the         *)
(* constructor and names the last kind of step afterwards; ev is the last  *)
(* call: [op, kind, ok, args, out, wrote].                                 *)
(***************************************************************************)
\* A Parameter array whose first slots have the given sizes; the rest are null.
MkParams(sizes) ==
    SubSeq([i \in 1..MAX_PARAMETERS |->
               IF i <= Len(sizes) THEN [backed |-> TRUE, size |-> sizes[i]]
               ELSE [backed |-> FALSE, size |-> 0]], 1, MAX_PARAMETERS)

MkVals(vs) == vs \o Repeat(<<>>, MAX_PARAMETERS - Len(vs))

\* float param0 = 1.2345, int64_t param1 = -0xffff, bool param2 = true
TEST_DEVICE ==
    [params |-> MkParams(<<4, 8, 1>>),
     vals |-> MkVals(<<<<25, 4, 158, 63>>, <<1, 0, 255, 255, 255, 255, 255, 255>>, <<1>>>>)]

\* uint64_t param1; byte param2[255 - 2 - sizeof(param1) + 1]
OVERFULL_DEVICE ==
    [params |-> MkParams(<<8, 246>>), vals |-> MkVals(<<LE(7, 8), Fill(246, 170)>>)]

\* The same after params[1].size--.
FULL_DEVICE ==
    [params |-> MkParams(<<8, 245>>), vals |-> MkVals(<<LE(7, 8), Fill(245, 170)>>)]

\* byte param1[255 - 2]
WIDE_DEVICE == [params |-> MkParams(<<253>>), vals |-> MkVals(<<Fill(253, 85)>>)]

\* Three parameters of 100 bytes: any two fit a payload, the three do not.
TRIPLE_DEVICE ==
    [params |-> MkParams(<<100, 100, 100>>),
     vals |-> MkVals(<<Fill(100, 1), Fill(100, 0), Fill(100, 255)>>)]

DeviceConfigs == {TEST_DEVICE, OVERFULL_DEVICE, FULL_DEVICE, WIDE_DEVICE, TRIPLE_DEVICE}

\* DeviceUID uid = { 0xaaaa, 0xbb, 0x123456789abcdef0L }
TEST_UID ==
    [device_id |-> 43690, year |-> 187, random |-> <<240, 222, 188, 154, 120, 86, 52, 18>>]

\* The arguments the make_<kind> calls are given.
MapArgs == {0, 1, 255, 256, 65535}
IntervalArgs == {0, 1, 61166, 65535}
ByteArgs == {0, 1, 221, 255}
ErrorArgs == {BACKOFF, BAD_CHECKSUM, GENERIC_ERROR, 0}
DevMaps == 0..7

MakeCalls ==
    {[kind |-> PING, args |-> <<>>], [kind |-> DEV_DISABLE, args |-> <<>>]}
    \cup {[kind |-> SUB_REQ, args |-> <<p, i>>] : p \in MapArgs, i \in IntervalArgs}
    \cup {[kind |-> SUB_RES, args |-> <<p, i, TEST_UID>>] : p \in {5, 65535}, i \in {0, 61166}}
    \cup {[kind |-> DEV_READ, args |-> <<p>>] : p \in MapArgs}
    \cup {[kind |-> k, args |-> <<p>>] : k \in {DEV_WRITE, DEV_DATA}, p \in DevMaps}
    \cup {[kind |-> k, args |-> <<x>>] : k \in {HB_REQ, HB_RES}, x \in ByteArgs}
    \cup {[kind |-> ERROR, args |-> <<e>>] : e \in ErrorArgs}

\* msg.make_<kind>(args): [ok, buf].
DoMake(b, c, ps, vs) ==
    CASE c.kind = PING -> make_ping(b)
      [] c.kind = SUB_REQ -> make_sub_req(b, c.args[1], c.args[2])
      [] c.kind = SUB_RES -> make_sub_res(b, c.args[1], c.args[2], c.args[3])
      [] c.kind = DEV_READ -> make_dev_read(b, c.args[1])
      [] c.kind = DEV_WRITE -> make_dev_write(b, c.args[1], ps, vs)
      [] c.kind = DEV_DATA -> make_dev_data(b, c.args[1], ps, vs)
      [] c.kind = DEV_DISABLE -> make_dev_disable(b)
      [] c.kind = HB_REQ -> make_hb_req(b, c.args[1])
      [] c.kind = HB_RES -> make_hb_res(b, c.args[1])
      [] c.kind = ERROR -> make_error(b, c.args[1])

ReadKinds == {SUB_REQ, SUB_RES, DEV_READ, DEV_WRITE, DEV_DATA, HB_REQ, HB_RES, ERROR}

\* msg.read_<kind>(outputs): [ok, out, wrote, vals]; out is what the outputs
\* hold after a successful call, wrote the number of outputs written to
\* (for the two parameter kinds: the map), vals the parameters' bytes.
DoRead(b, k, ps, vs) ==
    CASE k = SUB_REQ ->
            LET r == read_sub_req(b)
            IN  [ok |-> r.ok, out |-> <<r.params, r.interval>>,
                 wrote |-> Len(read_message(b, k, <<2, 2>>).fields), vals |-> vs]
      [] k = SUB_RES ->
            LET r == read_sub_res(b)
            IN  [ok |-> r.ok, out |-> <<r.params, r.interval, r.uid>>,
                 wrote |-> Len(read_message(b, k, <<2, 2, 2, 1, 8>>).fields), vals |-> vs]
      [] k = DEV_READ ->
            LET r == read_dev_read(b)
            IN  [ok |-> r.ok, out |-> <<r.present>>,
                 wrote |-> Len(read_message(b, k, <<2>>).fields), vals |-> vs]
      [] k = DEV_WRITE ->
            LET r == read_dev_write(b, ps, vs)
            IN  [ok |-> r.ok, out |-> <<r.present>>,
                 wrote |-> IF r.got THEN 1 ELSE 0, vals |-> r.vals]
      [] k = DEV_DATA ->
            LET r == read_dev_data(b, ps, vs)
            IN  [ok |-> r.ok, out |-> <<r.present>>,
                 wrote |-> IF r.got THEN 1 ELSE 0, vals |-> r.vals]
      [] k = HB_REQ ->
            LET r == read_hb_req(b)
            IN  [ok |-> r.ok, out |-> <<r.hb_id>>,
                 wrote |-> Len(read_message(b, k, <<1>>).fields), vals |-> vs]
      [] k = HB_RES ->
            LET r == read_hb_res(b)
            IN  [ok |-> r.ok, out |-> <<r.hb_id>>,
                 wrote |-> Len(read_message(b, k, <<1>>).fields), vals |-> vs]
      [] k = ERROR ->
            LET r == read_error(b)
            IN  [ok |-> r.ok, out |-> <<r.error>>,
                 wrote |-> Len(read_message(b, k, <<1>>).fields), vals |-> vs]

\* The frames of the encoding test, in its order.
TEST_ENCODINGS ==
    {<<2, 16, 2, 16>>,
     <<6, 17, 4, 255, 255, 128, 2, 149>>,
     <<6, 18, 15, 255, 255, 128, 1, 1, 1, 1, 1, 1, 1, 1, 1, 1, 1, 2, 157>>,
     <<4, 19, 2, 7, 2, 22>>,
     <<4, 20, 3, 1, 3, 1, 23>>,
     <<4, 21, 3, 1, 1, 2, 23>>,
     <<2, 22, 2, 22>>,
     <<5, 23, 1, 255, 233>>,
     <<5, 24, 1, 255, 230>>,
     <<5, 255, 1, 253, 3>>}

\* A PING followed by one more byte, and a 254-byte DEV_DATA framed with an
\* empty last block.
PING_TRAILED == <<2, 16, 3, 16, 85>>
WIDE_TRAILED ==
    <<255>> \o SubSeq(make_message(Blank, <<Fill(251, 85)>>, DEV_DATA).buf, 1, 254) \o <<1>>

\* Messages whose payload is shorter or longer than their kind's fields.
SUB_REQ_LONG == Frame(make_message(Blank, <<LE(7, 2), LE(100, 2), <<1>>>>, SUB_REQ))
HB_REQ_LONG == Frame(make_message(Blank, <<<<1, 2>>>>, HB_REQ))
HB_RES_EMPTY == Frame(make_message(Blank, <<>>, HB_RES))
DEV_DATA_SHORT == Frame(make_message(Blank, <<LE(2, 2), <<1, 2, 3, 4, 5, 6>>>>, DEV_DATA))
DEV_DATA_LONG == Frame(make_message(Blank, <<LE(4, 2), <<1, 2>>>>, DEV_DATA))
DEV_DATA_MAPLESS == Frame(make_message(Blank, <<<<1>>>>, DEV_DATA))

CodecFrames ==
    TEST_ENCODINGS
    \cup {PING_TRAILED, WIDE_TRAILED, SUB_REQ_SHORT, SUB_REQ_LONG, HB_REQ_LONG, HB_RES_EMPTY,
          DEV_WRITE_SHORT, DEV_WRITE_UNBACKED, DEV_DATA_SHORT, DEV_DATA_LONG,
          DEV_DATA_MAPLESS, BAD_CHECKSUM_FRAME, TRUNCATED_FRAME, SHORT_INPUT_FRAME,
          OVERFLOW_FRAME, EMPTY_FRAME}

\* What the codec on its own leaves alone.
loopvars ==
    <<sched, clock, active, timer, uid, subscription, update, hb, stop, tmo, served,
      nframes, wd, accepted, dis>>

\* Message msg(type), and the parameters of the test case.
InitMessage ==
    /\ clock = 0
    /\ active = TRUE
    /\ timer = [period_us |-> 0, isr |-> "none"]
    /\ pc = "fresh"
    /\ \E t \in {PING, DEV_DATA, ERROR} :
          /\ buf = NewMessage(t)
          /\ ev = [op |-> "new", kind |-> t, ok |-> TRUE, args |-> <<>>, out |-> <<>>,
                   wrote |-> 0]
    /\ uid = [device_id |-> DEVICE_ID, year |-> YEAR, random |-> RANDOM]
    /\ \E c \in DeviceConfigs : params = c.params /\ vals = c.vals
    /\ subscription = NO_PARAMETERS
    /\ update = NewTask(NO_SUBSCRIPTION, 0)
    /\ hb = NewTask(HB_INTERVAL, 0)
    /\ stop = 0
    /\ sent = <<>>
    /\ tmo = 0
    /\ served = 0
    /\ rx = [frame |-> <<>>, waited |-> 0]
    /\ nframes = 0
    /\ wd = [ticks |-> 0, disables |-> 0]
    /\ accepted = [ever |-> FALSE, sinceTick |-> FALSE]
    /\ dis = [setup |-> 0, cmd |-> 0]
    /\ tnow = TASK_EPOCH
    /\ tasks = SubSeq([i \in 1..Len(TASK_INTERVALS) |-> NewTask(TASK_INTERVALS[i], TASK_EPOCH)],
                      1, Len(TASK_INTERVALS))
    /\ tret = [op |-> "none", arg |-> 0, val |-> 0]
    /\ marked = SubSeq([i \in 1..Len(TASK_INTERVALS) |-> FALSE], 1, Len(TASK_INTERVALS))
    /\ ex = 0

\* msg.make_<kind>(args) on a new message, or again after a make that failed.
MakeCall ==
    /\ pc = "fresh" \/ (pc = "made" /\ ~ev.ok)
    /\ \E c \in MakeCalls :
          LET r == DoMake(buf, c, params, vals)
          IN  /\ buf' = r.buf
              /\ ev' = [op |-> "make", kind |-> c.kind, ok |-> r.ok, args |-> c.args,
                        out |-> IF c.kind \in {DEV_WRITE, DEV_DATA} THEN vals ELSE <<>>,
                        wrote |-> 0]
    /\ pc' = "made"
    /\ UNCHANGED <<loopvars, params, vals, sent, rx>>

\* param0 = 0; param2 = false; ... : the test clears the parameters between
\* making a message and reading it back.
ClearParams ==
    /\ pc = "made"
    /\ pc' = "cleared"
    /\ vals' = SubSeq([i \in 1..MAX_PARAMETERS |-> Zeros(Len(vals[i]))], 1, MAX_PARAMETERS)
    /\ UNCHANGED <<loopvars, buf, params, sent, rx, ev>>

\* params[i].size--, for the last parameter of the array.
ShrinkParam ==
    /\ pc = "made"
    /\ pc' = "shrunk"
    /\ LET i == CHOOSE j \in 1..MAX_PARAMETERS :
                    /\ params[j].backed
                    /\ \A l \in (j + 1)..MAX_PARAMETERS : ~params[l].backed
       IN  /\ params' = [params EXCEPT ![i].size = @ - 1]
           /\ vals' = [vals EXCEPT ![i] = SubSeq(@, 1, Len(@) - 1)]
    /\ UNCHANGED <<loopvars, buf, sent, rx, ev>>

\* msg.read_<kind>(outputs)
ReadCall ==
    /\ pc \in {"fresh", "made", "cleared", "shrunk", "decoded"}
    /\ \E k \in ReadKinds :
          LET r == DoRead(buf, k, params, vals)
          IN  /\ vals' = r.vals
              /\ ev' = [op |-> "read", kind |-> k, ok |-> r.ok, args |-> <<>>,
                        out |-> r.out, wrote |-> r.wrote]
    /\ pc' = "read"
    /\ UNCHANGED <<loopvars, buf, params, sent, rx>>

\* msg.encode(buf, capacity, &out_len) of a finished message.
Encode ==
    /\ pc = "fresh" \/ (pc \in {"made", "decoded"} /\ ev.ok)
    /\ \E cap \in {ENCODING_MAX_SIZE, 4} :
          LET e == encode(buf, cap)
          IN  /\ rx' = [frame |-> e.out, waited |-> 0]
              /\ ev' = [op |-> "encode", kind |-> get_type(buf), ok |-> e.ok, args |-> <<cap>>,
                        out |-> <<e.error, Len(e.out)>>, wrote |-> 0]
    /\ pc' = IF pc = "decoded" THEN "reencoded" ELSE "encoded"
    /\ UNCHANGED <<loopvars, buf, params, vals, sent>>

\* Message msg; msg.decode(frame, length): of a frame just encoded, into a
\* second message, or of a frame of the tests.
Decode ==
    /\ \/ pc = "fresh"
       \/ pc = "encoded" /\ ev.ok
    /\ \E f \in IF pc = "encoded" THEN {rx.frame} ELSE CodecFrames :
          LET d == decode(IF pc = "encoded" THEN NewMessage(PING) ELSE buf, f)
          IN  /\ buf' = d.buf
              /\ rx' = [frame |-> f, waited |-> 0]
              /\ ev' = [op |-> "decode", kind |-> get_type(d.buf), ok |-> d.ok, args |-> <<>>,
                        out |-> <<d.error, d.out_len>>, wrote |-> 0]
    /\ pc' = "decoded"
    /\ UNCHANGED <<loopvars, params, vals, sent>>

\* The payload offsets at which a byte is changed, and the values it takes.
CorruptAt(n) == {i \in {0, 1, 2, n \div 2, n - 2, n - 1} : 0 <= i /\ i < n}
CorruptValues == {0, 1, 127, 128, 255}

\* One payload byte of a finished message changes.
Corrupt ==
    /\ pc = "made" /\ ev.ok
    /\ \E i \in CorruptAt(get_payload_length(buf)), v \in CorruptValues :
          /\ buf[MESSAGE_TYPE_SIZE + PAYLOAD_LEN_SIZE + i + 1] # v
          /\ buf' = [buf EXCEPT ![MESSAGE_TYPE_SIZE + PAYLOAD_LEN_SIZE + i + 1] = v]
          /\ ev' = [op |-> "corrupt", kind |-> ev.kind, ok |-> TRUE, args |-> <<i, v>>,
                    out |-> <<>>, wrote |-> 0]
    /\ pc' = "corrupted"
    /\ UNCHANGED <<loopvars, params, vals, sent, rx>>

\* msg.verify_checksum()
Verify ==
    /\ pc \in {"fresh", "made", "corrupted"}
    /\ ev.op # "verify"
    /\ ev' = [op |-> "verify", kind |-> get_type(buf), ok |-> verify_checksum(buf),
              args |-> <<>>, out |-> <<>>, wrote |-> 0]
    /\ UNCHANGED <<loopvars, pc, buf, params, vals, sent, rx>>

\* The lengths append is called with.
AppendSizes == {1, 2, 3, 250}

\* msg.append(src, size)
AppendCall ==
    /\ pc = "made" /\ ev.op = "make" /\ ev.ok
    /\ \E n \in AppendSizes :
          LET r == append(buf, Fill(n, 85))
          IN  /\ buf' = r.buf
              /\ ev' = [op |-> "append", kind |-> ev.kind, ok |-> r.n # 0, args |-> <<n>>,
                        out |-> <<r.n>>, wrote |-> 0]
    /\ pc' = "appended"
    /\ UNCHANGED <<loopvars, params, vals, sent, rx>>

\* send_data(present) of a device with these parameters, every read succeeding.
SendData ==
    /\ pc = "fresh"
    /\ \E p \in DevMaps :
          LET sd == send_data(buf, p, params, vals)
          IN  /\ buf' = sd.buf
              /\ sent' = sd.wire
              /\ ev' = [op |-> "send_data", kind |-> DEV_DATA, ok |-> sd.ok, args |-> <<p>>,
                        out |-> <<>>, wrote |-> 0]
    /\ pc' = "sent"
    /\ UNCHANGED <<loopvars, params, vals, rx>>

NextMessage ==
    \/ MakeCall
    \/ ClearParams
    \/ ShrinkParam
    \/ ReadCall
    \/ Encode
    \/ Decode
    \/ Corrupt
    \/ Verify
    \/ AppendCall
    \/ SendData

SpecMessage == InitMessage /\ [][NextMessage]_vars

(***************************************************************************)
(* SerialHandler::send on its own: a message of a given size is built and  *)
(* handed to send, or send is given NULL.                                  *)
(***************************************************************************)
\* The payload sizes and the byte the payload is filled with.
SendSizes == {0, 1, 2, 3, 126, 127, 250, 251, 252, 253, 254, 255}
SendFills == {0, 1, 255}

\* A make_<kind> call whose fields add up to n bytes of value v.
BuildCall ==
    /\ pc = "fresh"
    /\ \E n \in SendSizes, v \in SendFills :
          LET r == make_message(buf, <<Fill(n, v)>>, get_type(buf))
          IN  /\ buf' = r.buf
              /\ ev' = [op |-> "make", kind |-> get_type(buf), ok |-> r.ok, args |-> <<n, v>>,
                        out |-> <<>>, wrote |-> 0]
    /\ pc' = "made"
    /\ UNCHANGED <<loopvars, params, vals, sent, rx>>

\* serial.send(&msg) of a new or built message, or serial.send(NULL).
SendCall ==
    /\ pc = "fresh" \/ (pc = "made" /\ ev.ok)
    /\ \E null \in BOOLEAN :
          LET r == serial_send([ok |-> ~null, buf |-> buf])
          IN  /\ sent' = r.wire
              /\ ev' = [op |-> "send", kind |-> get_type(buf), ok |-> r.ok, args |-> <<null>>,
                        out |-> <<>>, wrote |-> 0]
    /\ pc' = "sent"
    /\ UNCHANGED <<loopvars, buf, params, vals, rx>>

NextSend == BuildCall \/ SendCall

SpecSend == InitMessage /\ [][NextSend]_vars

(***************************************************************************)
(* A host whose frames pass the framing but go wrong after it: payloads    *)
(* shorter or longer than the kind's fields, a set bit without a           *)
(* parameter, decoded bytes fewer or more than the length byte declares,   *)
(* an empty frame; and a SUB_REQ and an HB_REQ that are in order.          *)
(***************************************************************************)
DEV_READ_SHORT == Frame(make_message(Blank, <<<<7>>>>, DEV_READ))
DEV_READ_LONG == Frame(make_message(Blank, <<LE(7, 2), <<1>>>>, DEV_READ))
DEV_WRITE_LONG == Frame(make_message(Blank, <<LE(1, 2), <<1>>, <<9>>>>, DEV_WRITE))
HB_REQ_EMPTY == Frame(make_message(Blank, <<>>, HB_REQ))
\* The bytes 17 01 4d of an HB_REQ with id 77, and no checksum byte: the
\* checksum of the HB_RES with id 66 is the one this message would have.
HB_REQ_CUT == <<4, HB_REQ, 1, 77>>

OddFrames ==
    {SUB_REQ_MID, SUB_REQ_SHORT, SUB_REQ_LONG, DEV_READ_SHORT, DEV_READ_LONG,
     DEV_WRITE_SHORT, DEV_WRITE_UNBACKED, DEV_WRITE_LONG, HB_REQ_FRAME, HB_REQ_LONG,
     HB_REQ_EMPTY, HB_REQ_CUT, PING_TRAILED, EMPTY_FRAME}

NextOdd ==
    \/ Setup
    \/ maybe_disable
    \/ LoopBegin
    \/ LoopEnd
    \/ ServeWait
    \/ ReadBytes(OddFrames)
    \/ RecvNothing
    \/ RecvReject
    \/ RecvOk
    \/ Accept
    \/ ServeSubReq
    \/ ServePing
    \/ ServeDevWrite
    \/ ServeDevRead
    \/ ServeHbReq

SpecOdd == Init /\ [][NextOdd]_vars

(***************************************************************************)
(* The loop on its own, for its progress: a host that sends frames that    *)
(* are answered, rejected or empty, one of them answered after a slow      *)
(* read.  The main flow is one thread that keeps running: while it has a   *)
(* step to take it takes one in the end, and every step moves on in the    *)
(* program or takes time.  What the transport delivers, and when, is left  *)
(* open.                                                                   *)
(***************************************************************************)
LoopFrames == {PING_FRAME, SUB_REQ_MID, DEV_READ_FRAME, BAD_CHECKSUM_FRAME, EMPTY_FRAME}

NextLoop ==
    \/ Setup
    \/ LoopBegin
    \/ LoopEnd
    \/ ServeWait
    \/ ReadBytes(LoopFrames)
    \/ RecvNothing
    \/ RecvReject
    \/ RecvOk
    \/ Accept
    \/ ServeSubReq
    \/ ServePing
    \/ ServeDevRead

\* The main flow has a step to take: the model stops it only where a receive
\* would end past the last clock reading covered.
Runnable ==
    \/ pc \in {"boot", "idle", "recv", "accept"}
    \/ /\ pc = "serve"
       /\ \/ clock >= stop
          \/ stop - clock < MIN_TIMEOUT
          \/ stop <= MaxClock
          \/ nframes < MaxFrames /\ FrameDelay <= stop - clock /\ clock + FrameDelay <= MaxClock
    \/ pc = "dispatch" /\ get_type(buf) \in {SUB_REQ, PING, DEV_READ}

\* A step of the main flow: it moves on in the program or takes time, at
\* most up to the deadline and a slow read past it.
MainStep ==
    /\ Runnable
    /\ pc' \in {"boot", "idle", "serve", "recv", "accept", "dispatch"}
    /\ clock' \in clock..(Max(clock, stop) + SlowRead)

SpecLoop == Init /\ [][NextLoop]_vars /\ WF_<<pc, clock>>(MainStep)

(***************************************************************************)
(* Properties.                                                             *)
(***************************************************************************)
\* A step of the timer interrupt.
IsTick == wd'.ticks = wd.ticks + 1

\* C1: a watchdog tick that runs with no message accepted since the tick
\* before it invokes the disable capability exactly once, and every tick
\* leaves the liveness flag false.
C1_TickDisablesWhenQuiet ==
    [][IsTick =>
        /\ active' = FALSE
        /\ (wd.ticks >= 1 /\ ~accepted.sinceTick) => wd'.disables = wd.disables + 1]_vars

C1_Witness == wd.ticks >= 2 /\ wd.disables >= 1 /\ ~active /\ ~accepted.sinceTick

\* C2: a tick that finds a message accepted since the tick before it, and
\* the first tick after setup, do not invoke the disable capability, wherever
\* in loop / serve_once the tick falls; so a run in which every tick finds
\* one has no watchdog disable at all.
C2_NoSpuriousDisable ==
    [][(IsTick /\ (accepted.sinceTick \/ wd.ticks = 0)) => wd'.disables = wd.disables]_vars

C2_Witness ==
    /\ pc = "dispatch" /\ nframes = 2 /\ ~active
    /\ wd = [ticks |-> 1, disables |-> 0] /\ ~accepted.sinceTick

\* After recv's decode into buffer b of frame f: no framing error, at least
\* MESSAGE_MIN_SIZE bytes, and the checksum matches.
FrameValid(b, f) ==
    LET d == cobs_decode(f, MESSAGE_MAX_SIZE)
        m == Overwrite(b, 0, d.out)
    IN  /\ d.status = COBS_DECODE_OK
        /\ Len(d.out) >= MESSAGE_MIN_SIZE
        /\ m[get_buffer_length(m)] = compute_checksum(m)

\* C3: a frame read is accepted (and the liveness flag then set, before any
\* dispatch) exactly when it decodes without framing error, has at least
\* MESSAGE_MIN_SIZE bytes and passes the checksum; reading a frame that fails
\* any of these leaves the flag as it was; only setup and an acceptance set it.
C3_LivenessIffValid ==
    [][/\ (pc = "recv" /\ pc' # "recv" /\ Len(rx.frame) > 0) =>
            /\ (pc' = "accept") = FrameValid(buf, rx.frame)
            /\ active' = active
       /\ (pc = "accept" /\ pc' # "accept") => (pc' = "dispatch" /\ active')
       /\ (pc' = "dispatch" /\ pc # "dispatch") => pc = "accept"
       /\ (pc' = "accept" /\ pc # "accept") => pc = "recv"
       /\ (active' /\ ~active) => (pc = "boot" \/ pc = "accept")]_vars

C3_Witness ==
    /\ ev = [op |-> "default", ok |-> TRUE]
    /\ rx.frame = UNSUPPORTED_FRAME
    /\ active /\ accepted.sinceTick

\* C4: setup invokes the disable capability once, registers maybe_disable
\* with period DISABLE_INTERVAL and leaves the liveness flag true; n ticks in
\* a row after setup with no message accepted make n - 1 watchdog disables.
C4_SetupThenTicks ==
    /\ pc = "boot" => (dis.setup = 0 /\ timer.isr = "none")
    /\ pc # "boot" =>
        /\ dis.setup = 1
        /\ timer = [period_us |-> DISABLE_INTERVAL * 1000, isr |-> "maybe_disable"]
    /\ (pc # "boot" /\ ~accepted.ever /\ wd.ticks = 0) => active
    /\ (~accepted.ever /\ wd.ticks >= 1) => wd.disables = wd.ticks - 1

C4_Witness == ~accepted.ever /\ wd.ticks >= 3 /\ wd.disables = wd.ticks - 1 /\ dis.setup = 1

\* C5: every run of loop() calls serve_once at least once before it returns.
C5_ServedEveryIteration == (pc = "idle" /\ ev.op = "loop_end") => served >= 1

\* C6: every timeout given to the receive is at least MIN_TIMEOUT and at most
\* MAX_INTERVAL; with less than MIN_TIMEOUT left serve_once waits the time
\* out and does nothing else: no receive, nothing sent, no state changed.
C6_TimeoutBounds ==
    [][/\ tmo' # tmo => (MIN_TIMEOUT <= tmo' /\ tmo' <= MAX_INTERVAL /\ tmo' < 2000)
       /\ (pc' = "recv" /\ pc # "recv") => tmo' = stop - clock
       /\ (pc = "serve" /\ clock < stop /\ stop - clock < MIN_TIMEOUT /\ ~IsTick) =>
            /\ clock' = stop
            /\ sent' = <<>>
            /\ UNCHANGED <<tmo, rx, nframes, pc, buf, uid, params, vals, subscription,
                           update, hb, stop, active, timer>>]_vars

C6_Witness == ev.op = "wait" /\ tmo >= MIN_TIMEOUT /\ clock = stop /\ nframes >= 1

\* The least number of a non-empty finite set of numbers.
Least(S) == CHOOSE x \in S : \A y \in S : x <= y

\* What Task::select(n, tasks) is to do at clock reading tnow.
SelectPost(n) ==
    /\ \A i \in 1..Len(tasks) :
        /\ tasks'[i].interval = tasks[i].interval
        /\ IF i <= n /\ tnow >= tasks[i].last + tasks[i].interval
           THEN tasks'[i].ready /\ tasks'[i].last = tnow
           ELSE tasks'[i].ready = tasks[i].ready /\ tasks'[i].last = tasks[i].last
    /\ tret'.val = Least({tnow + 1000}
                         \cup {tasks'[i].last + tasks'[i].interval : i \in 1..n})

ReadySet(ts) == {i \in 1..Len(ts) : ts[i].ready}

\* The task selection example: what each select(3, tasks) of ExampleCalls returns.
ExamplePost ==
    tret.op = "select" =>
        /\ ex = 1 => (tret.val = 1600 /\ ReadySet(tasks) = {})
        /\ ex = 2 => (tret.val = 1800 /\ ReadySet(tasks) = {1})
        /\ ex = 3 => tret.val = 2100
        /\ ex = 4 => tret.val = 2700

\* C7: select at clock reading now marks ready the given tasks with
\* now >= last + interval and sets their last to now, leaves the others as
\* they were, and returns the least of now + 1000 and the given tasks'
\* last + interval after that; with no tasks it returns now + 1000; the
\* example of tasks 600 / 1100 / 800 made at 1000 returns 1600, 1800, 2100, 2700.
C7_SelectContract ==
    [][/\ \A n \in 0..Len(tasks) : Select(n) => SelectPost(n)
       /\ Select(0) => tret'.val = tnow + 1000
       /\ ExamplePost']_vars

C7_Witness == tret = [op |-> "select", arg |-> 3, val |-> 2700] /\ ex = 4

\* C8: clear_ready returns true exactly when a select found the task due
\* since the last clear_ready on it, so a clear_ready right after another on
\* the same task returns false; a select at which a task is not due leaves a
\* set ready flag set.
C8_ReadyConsumedOnce ==
    [][/\ \A i \in 1..Len(tasks) : ClearReady(i) =>
            /\ (tret'.val = 1) = marked[i]
            /\ (tret.op = "clear_ready" /\ tret.arg = i) => tret'.val = 0
            /\ ~tasks'[i].ready
       /\ \A n \in 0..Len(tasks) : Select(n) =>
            \A i \in 1..Len(tasks) :
                (tasks[i].ready /\ ~Due(tasks, n, i, tnow)) => tasks'[i].ready]_vars

C8_Witness ==
    /\ tret = [op |-> "clear_ready", arg |-> 1, val |-> 1]
    /\ tasks[3].ready /\ tasks[3].last < tnow
    /\ ~marked[1]

\* The interval field of the SUB_REQ held in buffer b.
RequestedInterval(b) == b[5] + 256 * b[6]

\* A dispatch step of serve_once on a message of type t.
Dispatched(t) == pc = "dispatch" /\ pc' = "serve" /\ get_type(buf) = t

\* C9: the stored subscription interval is 0 or within
\* [MIN_SUB_INTERVAL, MAX_SUB_INTERVAL]; an accepted SUB_REQ asking for 0
\* stores 0, and asking for v > 0 stores min(max(v, 40), 250).
C9_IntervalClamped ==
    [][/\ update'.interval = 0 \/ (40 <= update'.interval /\ update'.interval <= 250)
       /\ (Dispatched(SUB_REQ) /\ ev'.ok) =>
            update'.interval =
                IF RequestedInterval(buf) = 0 THEN 0
                ELSE Min(Max(RequestedInterval(buf), 40), 250)]_vars

C9_Witness ==
    /\ ev = [op |-> "sub_req", ok |-> TRUE]
    /\ rx.frame = SUB_REQ_HIGH
    /\ update.interval = MAX_SUB_INTERVAL

\* The message a write (a frame and its delimiter) carries.
Carried(w) == from_cobs(Blank, SubSeq(w, 1, Len(w) - 1))

\* C10: serve_once answers every accepted SUB_REQ and every PING with one
\* write, a SUB_RES carrying the subscription map and interval stored after
\* the step and the device's UID, which is the same throughout.
C10_SubResReply ==
    [][/\ uid' = [device_id |-> DEVICE_ID, year |-> YEAR, random |-> RANDOM]
       /\ ((Dispatched(SUB_REQ) /\ ev'.ok) \/ Dispatched(PING)) =>
            /\ Len(sent') = 1
            /\ sent'[1][Len(sent'[1])] = MESSAGE_DELIMETER
            /\ LET c == Carried(sent'[1])
               IN  /\ c.status = COBS_DECODE_OK
                   /\ verify_checksum(c.buf)
                   /\ read_sub_res(c.buf) =
                        [ok |-> TRUE, params |-> subscription',
                         interval |-> update'.interval, uid |-> uid]]_vars

C10_Witness ==
    /\ ev = [op |-> "ping", ok |-> TRUE]
    /\ subscription # NO_PARAMETERS
    /\ update.interval = MIN_SUB_INTERVAL
    /\ Len(sent) = 1

\* The map field of the SUB_REQ or DEV_READ held in buffer b.
RequestedMap(b) == b[3] + 256 * b[4]

\* What an external read of map r gives when it takes ro.d and manages to
\* read the parameters ro.ok: the bits of r that name one of the device's
\* parameters and whose read went through.
ReadResult(r, ro) ==
    MapOf((BitsOf(r) \cap (0..(NUM_PARAMS - 1))) \cap BitsOf(ro.ok))

\* C11: after an accepted SUB_REQ asking for map R the stored map is what the
\* external read of R gave at that step, and a subset of R within the
\* device's parameters: a bit whose read fails is not subscribed.
C11_SubscriptionIsReadResult ==
    [][(Dispatched(SUB_REQ) /\ ev'.ok) =>
        /\ \E ro \in ReadOutcomes :
              /\ clock' = clock + ro.d
              /\ subscription' = ReadResult(RequestedMap(buf), ro)
        /\ BitsOf(subscription') \subseteq
              BitsOf(RequestedMap(buf)) \cap (0..(NUM_PARAMS - 1))]_vars

C11_Witness ==
    /\ ev = [op |-> "sub_req", ok |-> TRUE]
    /\ rx.frame = SUB_REQ_MID
    /\ subscription = 4
    /\ update.interval = 100

\* C12: the stored subscription map and interval change only in the step
\* that serves a SUB_REQ whose payload parses; every other step (a PING, a
\* DEV_READ, a DEV_WRITE, heartbeats, DEV_DISABLE, an unsupported type, a
\* rejected frame, a SUB_REQ that fails to parse, loop, a tick) leaves both.
C12_SubscriptionFrame ==
    [][(subscription' # subscription \/ update'.interval # update.interval) =>
        (Dispatched(SUB_REQ) /\ ev'.ok)]_vars

C12_Witness ==
    /\ ev = [op |-> "sub_req", ok |-> FALSE]
    /\ rx.frame = SUB_REQ_SHORT
    /\ subscription # NO_PARAMETERS
    /\ update.interval = MIN_SUB_INTERVAL

\* The indices of the writes in ws that carry a DEV_DATA message.
Pushes(ws) == {i \in 1..Len(ws) : get_type(Carried(ws[i]).buf) = DEV_DATA}

\* The step of loop() before its while loop.
IsLoopBegin == pc = "idle" /\ pc' = "serve"

\* C13: while the stored interval is 0, a run of loop() transmits no DEV_DATA
\* and select is not given the update task (the task is left as it was);
\* while it is nonzero the task takes part in select, so the deadline is no
\* later than the task's next firing.
C13_NoPushWhenUnsubscribed ==
    [][/\ (IsLoopBegin /\ update.interval = 0) =>
            (Pushes(sent') = {} /\ update' = update)
       /\ (IsLoopBegin /\ update.interval # 0) =>
            stop' <= update'.last + update'.interval]_vars

C13_Witness ==
    /\ ev.op = "loop" /\ pc = "serve"
    /\ update = [ready |-> FALSE, last |-> 1000, interval |-> 0]
    /\ subscription # NO_PARAMETERS
    /\ clock > 1000
    /\ Len(sent) = 0

\* The values a DEV_DATA with map p is to carry when the parameters hold vs:
\* the bytes of the parameters of p, nothing for the others.
ValuesOf(p, vs) ==
    SubSeq([i \in 1..MAX_PARAMETERS |-> IF (i - 1) \in BitsOf(p) THEN vs[i] ELSE <<>>],
           1, MAX_PARAMETERS)

\* The write w carries a DEV_DATA whose map is p and whose values are those
\* of vs for the parameters of p, in ascending order, and nothing else.
IsDevData(w, p, vs) ==
    LET c == Carried(w)
        r == read_dev_data(c.buf, InitParams, Repeat(<<>>, MAX_PARAMETERS))
    IN  /\ w[Len(w)] = MESSAGE_DELIMETER
        /\ c.status = COBS_DECODE_OK
        /\ verify_checksum(c.buf)
        /\ r.ok
        /\ r.present = p
        /\ r.vals = ValuesOf(p, vs)

\* C14: with a stored interval I > 0, a run of loop() that starts I or more
\* after the update task last fired (or was made) transmits exactly one
\* DEV_DATA, whose map is what the external read of the stored map gives at
\* that moment and whose values are the parameters' values at that moment,
\* and marks the task fired; a run that starts earlier transmits none.
C14_PushWhenDue ==
    [][(IsLoopBegin /\ update.interval # 0) =>
        IF clock >= update.last + update.interval
        THEN /\ update'.last = clock
             /\ Cardinality(Pushes(sent')) = 1
             /\ \E ro \in ReadOutcomes :
                   /\ clock' = clock + ro.d
                   /\ IsDevData(sent'[Len(sent')], ReadResult(subscription, ro), vals)
        ELSE /\ update'.last = update.last
             /\ Pushes(sent') = {}]_vars

C14_Witness ==
    /\ ev.op = "loop" /\ pc = "serve"
    /\ Len(sent) = 2
    /\ vals[1] = <<1>> /\ InitVals[1] = <<0>>
    /\ IsDevData(sent[2], 1, vals)

\* A run of loop() that starts before the update task is due.
C14_WitnessEarly ==
    /\ ev.op = "loop" /\ pc = "serve"
    /\ update.interval = MAX_SUB_INTERVAL
    /\ clock < update.last + update.interval
    /\ clock > update.last
    /\ sent = <<>>

\* C15: serve_once of a well-formed HB_RES writes nothing to the transport.
C15_HbResSilent == (ev = [op |-> "hb_res", ok |-> TRUE]) => sent = <<>>

\* C16: serve_once of a DEV_DISABLE that passed the checksum calls
\* device_disable exactly once and writes nothing to the transport.
C16_DisableOnceNoReply == ev.op = "dev_disable" => (dis.cmd = 1 /\ sent = <<>>)

C16_Witness ==
    /\ ev = [op |-> "dev_disable", ok |-> TRUE]
    /\ rx.frame = DEV_DISABLE_FRAME
    /\ dis = [setup |-> 1, cmd |-> 1]
    /\ sent = <<>>

\* The message the frame f carries.
Received(f) == from_cobs(Blank, f).buf

\* C17: serve_once of a well-formed HB_REQ with id x writes exactly one
\* reply, an HB_RES with id x, for every x in 0..255.
C17_HbReqEcho ==
    (ev.op = "hb_req" /\ read_hb_req(Received(rx.frame)).ok) =>
        /\ Len(sent) = 1
        /\ sent[1][Len(sent[1])] = MESSAGE_DELIMETER
        /\ LET c == Carried(sent[1])
           IN  /\ c.status = COBS_DECODE_OK
               /\ verify_checksum(c.buf)
               /\ read_hb_res(c.buf) =
                    [ok |-> TRUE, hb_id |-> read_hb_req(Received(rx.frame)).hb_id]

C17_Witness ==
    /\ ev = [op |-> "hb_req", ok |-> TRUE]
    /\ read_hb_req(Received(rx.frame)) = [ok |-> TRUE, hb_id |-> 0]
    /\ Len(sent) = 1
    /\ nframes = 2

\* C18: serve_once of a checksum-valid message whose type is none of the
\* handled ones (SUB_RES, DEV_DATA, ERROR, any undefined type byte) writes
\* exactly one reply, an ERROR carrying INVALID_TYPE, in the default case,
\* which takes no time, calls no device capability and leaves the
\* parameters' values, the subscription and the disable count alone.
C18_UnhandledType ==
    [][(pc = "dispatch" /\ pc' # "dispatch"
            /\ get_type(buf) \notin {16, 17, 19, 20, 22, 23, 24}) =>
        /\ ev'.op = "default"
        /\ Len(sent') = 1
        /\ sent'[1][Len(sent'[1])] = MESSAGE_DELIMETER
        /\ LET c == Carried(sent'[1])
           IN  /\ c.status = COBS_DECODE_OK
               /\ verify_checksum(c.buf)
               /\ read_error(c.buf) = [ok |-> TRUE, error |-> 251]
        /\ UNCHANGED <<clock, vals, params, subscription, update, dis>>]_vars

C18_Witness ==
    /\ ev = [op |-> "default", ok |-> TRUE]
    /\ rx.frame = SUB_RES_FRAME
    /\ subscription = 1 /\ update.interval = MIN_SUB_INTERVAL
    /\ Len(sent) = 1

\* The code the ERROR reply to a frame f that fails decoding is to carry: by
\* what the COBS decoding of f reports, and for the frames of the tests by name.
RejectCode(f) ==
    LET d == cobs_decode(f, MESSAGE_MAX_SIZE)
    IN  IF d.status = COBS_DECODE_OUT_BUFFER_OVERFLOW THEN 252
        ELSE IF d.status # COBS_DECODE_OK \/ Len(d.out) < MESSAGE_MIN_SIZE THEN 253
        ELSE 254

C20_DevReadReply ==
    [][(Dispatched(DEV_READ) /\ read_dev_read(buf).ok) =>
        /\ Len(sent') = 1
        /\ vals' = vals
        /\ \E ro \in ReadOutcomes :
              /\ clock' = clock + ro.d
              /\ IsDevData(sent'[1], ReadResult(RequestedMap(buf), ro), vals)]_vars

C20_Witness ==
    /\ ev = [op |-> "dev_read", ok |-> TRUE]
    /\ rx.frame = DEV_READ_FRAME
    /\ update.interval = NO_SUBSCRIPTION
    /\ Len(sent) = 1
    /\ IsDevData(sent[1], 5, vals)
    /\ read_dev_data(Carried(sent[1]).buf, InitParams, InitVals).vals[3] = <<94, 186, 222, 192>>

\* The present map of the DEV_DATA carried by the write w.
ReplyMap(w) == read_dev_data(Carried(w).buf, InitParams, InitVals).present

\* C21: while a subscription is active, the DEV_DATA that answers a DEV_READ
\* or a DEV_WRITE carries no bit of the subscribed map.
C21_ReplyMasked ==
    (/\ ev.op \in {"dev_read", "dev_write"}
     /\ ev.ok
     /\ is_subscribed(update)
     /\ Len(sent) = 1)
        => BitsOf(ReplyMap(sent[1])) \cap BitsOf(subscription) = {}

\* The bytes the parameters of the set S take in a payload.
RECURSIVE SizeOf(_)
SizeOf(S) ==
    IF S = {} THEN 0
    ELSE LET i == CHOOSE x \in S : TRUE
         IN  PARAM_SIZES[i + 1] + SizeOf(S \ {i})

\* The DEV_WRITE held in b is well formed: its map names declared parameters
\* only and its payload is the map followed by exactly their bytes.
WellFormedWrite(b) ==
    /\ BitsOf(RequestedMap(b)) \subseteq 0..(NUM_PARAMS - 1)
    /\ get_payload_length(b) = 2 + SizeOf(BitsOf(RequestedMap(b)))

\* The bytes b carries for parameter i of its map: they follow the map and
\* the bytes of the lower parameters of the map.
CarriedValue(b, i) ==
    LET off == 4 + SizeOf({j \in BitsOf(RequestedMap(b)) : j < i})
    IN  SubSeq(b, off + 1, off + PARAM_SIZES[i + 1])

\* What the external write of map p gives when it manages the parameters wm.
WriteResult(p, wm) == MapOf((BitsOf(p) \cap (0..(NUM_PARAMS - 1))) \cap BitsOf(wm))

HbReqs(ws) == {i \in 1..Len(ws) : get_type(Carried(ws[i]).buf) = HB_REQ}

\* The write w carries a checksum-valid HB_REQ with the id x.
IsHbReq(w, x) ==
    LET c == Carried(w)
    IN  /\ w[Len(w)] = MESSAGE_DELIMETER
        /\ c.status = COBS_DECODE_OK
        /\ verify_checksum(c.buf)
        /\ get_type(c.buf) = HB_REQ
        /\ get_payload_length(c.buf) = 1
        /\ c.buf[3] = x

\* C24: a run of loop() transmits an HB_REQ exactly when HB_INTERVAL or more
\* has passed since the heartbeat task last fired (or was made); it is then
\* the only HB_REQ of the run, carries the id 255 and is the first write, so
\* that a subscription push of the same run comes after it.
C24_HbReqWhenDue ==
    [][IsLoopBegin =>
        IF clock >= hb.last + 1000
        THEN /\ hb'.last = clock
             /\ Cardinality(HbReqs(sent')) = 1
             /\ IsHbReq(sent'[1], 255)
             /\ \A i \in Pushes(sent') : i > 1
        ELSE /\ hb'.last = hb.last
             /\ HbReqs(sent') = {}]_vars

\* A run of loop() in which the heartbeat request and a push are both written.
C24_Witness ==
    /\ ev.op = "loop" /\ pc = "serve"
    /\ hb.last = clock
    /\ Len(sent) = 2
    /\ IsHbReq(sent[1], 255)
    /\ Pushes(sent) = {2}

(***************************************************************************)
(* The codec on its own.                                                   *)
(***************************************************************************)
\* The bytes of the message held in b: type, length, payload, checksum.
MessageOf(b) == SubSeq(b, 1, b[2] + 3)

\* The XOR of the bytes of s, bit by bit.
RECURSIVE XorAll(_)
XorAll(s) ==
    IF Len(s) = 0 THEN 0
    ELSE IF Len(s) = 1 THEN s[1]
    ELSE LET m == Len(s) \div 2
         IN  XorN(XorAll(SubSeq(s, 1, m)), XorAll(SubSeq(s, m + 1, Len(s))), 8)

\* The checksum byte of the message held in b is the XOR of the bytes before it.
ChecksumHolds(b) == b[b[2] + 3] = XorAll(SubSeq(b, 1, b[2] + 2))

\* The bytes the parameters of map p with a backing span take, for the array ps.
RECURSIVE Serialized(_, _)
Serialized(S, ps) ==
    IF S = {} THEN 0
    ELSE LET i == CHOOSE x \in S : TRUE
         IN  (IF ps[i + 1].backed THEN ps[i + 1].size ELSE 0) + Serialized(S \ {i}, ps)

\* Every parameter of map p has a backing span in ps.
AllBacked(p, ps) == \A i \in BitsOf(p) : ps[i + 1].backed

ParamKinds == {DEV_WRITE, DEV_DATA}

\* The payload size of a kind's field layout; p is the map of a parameter kind.
LayoutSize(k, p, ps) ==
    CASE k \in {PING, DEV_DISABLE} -> 0
      [] k = SUB_REQ -> 2 + 2
      [] k = SUB_RES -> 2 + 2 + 2 + 1 + 8
      [] k = DEV_READ -> 2
      [] k \in ParamKinds -> 2 + Serialized(BitsOf(p), ps)
      [] k \in {HB_REQ, HB_RES, ERROR} -> 1

\* C23: when the bytes of the parameters given to send_data do not fit one
\* payload, send_data succeeds with exactly one write per set bit, in
\* ascending order, each a valid DEV_DATA whose map is that bit alone and
\* whose value is that parameter's bytes.
C23_OneMessagePerBit ==
    (ev.op = "send_data" /\ AllBacked(ev.args[1], params)
        /\ 2 + Serialized(BitsOf(ev.args[1]), params) > PAYLOAD_MAX_SIZE) =>
        /\ ev.ok
        /\ Len(sent) = Cardinality(BitsOf(ev.args[1]))
        /\ \A k \in 1..Len(sent) :
              LET c == Carried(sent[k])
                  r == read_dev_data(c.buf, params, Repeat(<<>>, MAX_PARAMETERS))
              IN  /\ c.status = COBS_DECODE_OK
                  /\ ChecksumHolds(c.buf)
                  /\ r.ok
                  /\ Cardinality(BitsOf(r.present)) = 1
                  /\ Cardinality({i \in BitsOf(ev.args[1]) : i < Least(BitsOf(r.present))}) = k - 1
                  /\ \A i \in BitsOf(r.present) : r.vals[i + 1] = vals[i + 1]

\* C25: a message just constructed, or just built by a make_<kind> call that
\* returned true, has the kind's type byte, a payload length equal to the
\* size of the kind's fields and at most 255, and a checksum byte equal to
\* the XOR of every byte before it, which verify_checksum accepts.
C25_MadeMessageShape ==
    (pc \in {"fresh", "made"} /\ ev.op \in {"new", "make"} /\ ev.ok) =>
        /\ buf[1] = ev.kind
        /\ buf[2] = IF ev.op = "new" THEN 0
                    ELSE LayoutSize(ev.kind, IF ev.kind \in ParamKinds THEN ev.args[1] ELSE 0,
                                    params)
        /\ buf[2] <= 255
        /\ ChecksumHolds(buf)
        /\ verify_checksum(buf)

\* make_dev_data(0b11, param_addrs) of the test.
C25_Witness ==
    /\ pc = "made"
    /\ ev.op = "make" /\ ev.kind = DEV_DATA /\ ev.ok /\ ev.args = <<3>>
    /\ params = TEST_DEVICE.params
    /\ buf[1] = DEV_DATA
    /\ buf[2] = 2 + 4 + 8

\* C26: read_<kind> of a message that make_<kind>(args) has just built
\* succeeds and gives args back; for DEV_WRITE and DEV_DATA whose selected
\* parameters all have a backing span it gives the map back and stores in the
\* selected parameters the bytes they held when the message was made.
C26_MakeReadRoundTrip ==
    [][(/\ pc \in {"made", "cleared"}
        /\ ev.op = "make" /\ ev.ok
        /\ pc' = "read" /\ ev'.kind = ev.kind
        /\ ev.kind \in ParamKinds => AllBacked(ev.args[1], params)) =>
        /\ ev'.ok
        /\ ev'.out = ev.args
        /\ ev.kind \in ParamKinds =>
              \A i \in BitsOf(ev.args[1]) : vals'[i + 1] = ev.out[i + 1]]_vars

\* read_dev_write of the DEV_WRITE made with map 0b101, after the test has
\* cleared the parameters.
C26_Witness ==
    /\ pc = "read"
    /\ ev.op = "read" /\ ev.kind = DEV_WRITE /\ ev.ok /\ ev.out = <<5>>
    /\ params = TEST_DEVICE.params
    /\ vals[1] = <<25, 4, 158, 63>>
    /\ vals[2] = Zeros(8)
    /\ vals[3] = <<1>>

\* An encode call with room for any message.
IsFullEncode == ev'.op = "encode" /\ ev'.args = <<ENCODING_MAX_SIZE>>

C28_CorruptionDetected ==
    pc = "corrupted" =>
        /\ ~ChecksumHolds(buf)
        /\ ev.op = "verify" => ~ev.ok

C28_Witness ==
    /\ pc = "corrupted"
    /\ ev.op = "verify" /\ ~ev.ok
    /\ buf[2] = 255
    /\ buf[257] = 0

\* C29: an append that would take the payload past 255 bytes returns zero
\* and leaves the message as it was, any other append extends the payload;
\* make_dev_write and make_dev_data fail exactly when the map and the
\* serialized parameters take more than 255 bytes.
C29_PayloadCapacity ==
    [][/\ (pc = "made" /\ pc' = "appended") =>
             IF buf[2] + ev'.args[1] > 255
             THEN buf' = buf /\ ~ev'.ok /\ ev'.out = <<0>>
             ELSE /\ ev'.ok /\ ev'.out = ev'.args
                  /\ buf'[2] = buf[2] + ev'.args[1]
                  /\ SubSeq(buf', 3, buf[2] + 2) = SubSeq(buf, 3, buf[2] + 2)
                  /\ buf'[1] = buf[1]
       /\ (pc' = "made" /\ ev'.op = "make" /\ ev'.kind \in ParamKinds) =>
             (ev'.ok <=> 2 + Serialized(BitsOf(ev'.args[1]), params) <= 255)]_vars

\* make_dev_write(0b11, params) once params[1].size is 255 - 2 - 8.
C29_Witness ==
    /\ pc = "made"
    /\ ev.op = "make" /\ ev.kind = DEV_WRITE /\ ev.ok /\ ev.args = <<3>>
    /\ params = FULL_DEVICE.params
    /\ buf[2] = 255

\* The payload bytes the fields of kind k take in the message held in b.
FieldsNeeded(k, b, ps) ==
    IF k \in ParamKinds
    THEN IF b[2] < 2 THEN 2 ELSE 2 + Serialized(BitsOf(RequestedMap(b)), ps)
    ELSE LayoutSize(k, 0, ps)

\* C30: a read_<kind> call succeeds only on a message of its kind whose
\* payload length is exactly the size of the kind's fields; on another type
\* it fails and writes no output, and it fails when the payload is shorter
\* or longer than the fields.
C30_ReadChecks ==
    [][(pc' = "read" /\ ev'.op = "read") =>
        /\ ev'.ok => (buf[1] = ev'.kind /\ buf[2] = FieldsNeeded(ev'.kind, buf, params))
        /\ buf[1] # ev'.kind => (~ev'.ok /\ ev'.wrote = 0 /\ vals' = vals)
        /\ (buf[1] = ev'.kind /\ buf[2] # FieldsNeeded(ev'.kind, buf, params)) => ~ev'.ok]_vars

\* read_dev_data of the 253-byte DEV_DATA once params[0].size is 252.
C30_Witness ==
    /\ pc = "read"
    /\ ev.op = "read" /\ ev.kind = DEV_DATA /\ ~ev.ok
    /\ buf[1] = DEV_DATA
    /\ buf[2] = 255
    /\ params[1].size = 252


\* The bytes stored in the parameters of S that have a backing span, in
\* ascending order of index.
RECURSIVE BackedBytes(_, _, _)
BackedBytes(S, ps, vs) ==
    IF S = {} THEN <<>>
    ELSE LET i == Least(S)
         IN  (IF ps[i + 1].backed THEN vs[i + 1] ELSE <<>>) \o BackedBytes(S \ {i}, ps, vs)

\* C31: make_dev_write and make_dev_data of a map whose backed parameters fit
\* a payload succeed, and the payload is the map as given, low byte first,
\* followed by the bytes of every set bit's parameter that has a backing
\* span, in ascending bit order; a set bit without a span adds no byte and
\* stays set in the map.
C31_PayloadOfBackedBits ==
    (pc = "made" /\ ev.op = "make" /\ ev.kind \in ParamKinds
        /\ 2 + Serialized(BitsOf(ev.args[1]), params) <= PAYLOAD_MAX_SIZE) =>
        /\ ev.ok
        /\ SubSeq(buf, 3, 2 + buf[2])
              = <<ev.args[1] % 256, ev.args[1] \div 256>>
                    \o BackedBytes(BitsOf(ev.args[1]), params, vals)

\* make_dev_data(0b110) on the device with one parameter: bits 1 and 2 have
\* no span, and the payload is the map alone.
C31_Witness ==
    /\ pc = "made"
    /\ ev.op = "make" /\ ev.kind = DEV_DATA /\ ev.ok /\ ev.args = <<6>>
    /\ params = WIDE_DEVICE.params
    /\ buf[2] = 2
    /\ SubSeq(buf, 3, 4) = <<6, 0>>


\* C34: read_dev_write / read_dev_data of a message that make_dev_write /
\* make_dev_data has just built from a map with a set bit whose parameter has
\* no backing span, with the same parameter array, succeeds and gives the
\* map back.
C34_UnbackedRoundTrip ==
    [][(/\ pc \in {"made", "cleared"}
        /\ ev.op = "make" /\ ev.ok /\ ev.kind \in ParamKinds
        /\ ~AllBacked(ev.args[1], params)
        /\ pc' = "read" /\ ev'.kind = ev.kind) =>
        /\ ev'.ok
        /\ ev'.out = ev.args]_vars


\* C32: send of a message, of any size up to MESSAGE_MAX_SIZE, returns true
\* and writes one frame of at most ENCODING_MAX_SIZE bytes before the
\* delimiter, which decodes to that message: never the fallback.
C32_SendNeverOverflows ==
    (pc = "sent" /\ ev.op = "send" /\ ev.args = <<FALSE>>) =>
        /\ ev.ok
        /\ Len(sent) = 1
        /\ Len(sent[1]) - 1 <= ENCODING_MAX_SIZE
        /\ Carried(sent[1]).status = COBS_DECODE_OK
        /\ Carried(sent[1]).out_len = buf[2] + 3
        /\ MessageOf(Carried(sent[1]).buf) = MessageOf(buf)

\* A message of MESSAGE_MAX_SIZE bytes, none of them zero, is sent: its frame
\* fills serial_buf.
C32_Witness ==
    /\ pc = "sent"
    /\ ev.op = "send" /\ ev.ok
    /\ buf[2] = PAYLOAD_MAX_SIZE
    /\ \A i \in 1..MESSAGE_MAX_SIZE : buf[i] # 0
    /\ Len(sent[1]) = ENCODING_MAX_SIZE + 1

\* C38: every call of send writes exactly one frame, a non-empty run of
\* non-zero bytes followed by one delimiter; send returns true exactly when
\* it was given a message and the frame is that message's encoding, and the
\* frame of a call that returns false is the generic error frame.
C38_SendWritesOneFrame ==
    (pc = "sent" /\ ev.op = "send") =>
        /\ Len(sent) = 1
        /\ Len(sent[1]) >= 2
        /\ sent[1][Len(sent[1])] = MESSAGE_DELIMETER
        /\ \A i \in 1..(Len(sent[1]) - 1) : sent[1][i] # MESSAGE_DELIMETER
        /\ ev.ok <=> (/\ ev.args = <<FALSE>>
                      /\ sent[1] = encode(buf, ENCODING_MAX_SIZE).out \o <<MESSAGE_DELIMETER>>)
        /\ ~ev.ok => sent[1] = <<5, 255, 1, 255, 1, 0>>

\* send(NULL): the generic error frame and false.
C38_Witness ==
    /\ pc = "sent"
    /\ ev.op = "send" /\ ~ev.ok /\ ev.args = <<TRUE>>
    /\ sent = <<<<5, 255, 1, 255, 1, 0>>>>


\* C35: every accepted message has as many decoded bytes as
\* MESSAGE_MIN_SIZE plus its length byte: no byte of the message, payload or
\* checksum, is one that an earlier message left in the buffer.
C35_AcceptedLengthMatches ==
    pc = "accept" =>
        Len(cobs_decode(rx.frame, MESSAGE_MAX_SIZE).out) = MESSAGE_MIN_SIZE + buf[2]


\* C36: serve_once of a DEV_WRITE that read_dev_write does not accept (its
\* map names a parameter without a span, or its payload is shorter or longer
\* than the map's values) leaves the bytes of every parameter as they were.
C36_RejectedWriteStoresNothing ==
    [][(Dispatched(DEV_WRITE) /\ ~WellFormedWrite(buf)) => vals' = vals]_vars

\* The payload of the request held in b does not have the size of its kind's
\* fields, or names a parameter the device has no span for.
Malformed(b) ==
    CASE get_type(b) = SUB_REQ -> get_payload_length(b) # 2 + 2
      [] get_type(b) = DEV_READ -> get_payload_length(b) # 2
      [] get_type(b) = DEV_WRITE -> ~WellFormedWrite(b)
      [] get_type(b) = HB_REQ -> get_payload_length(b) # 1
      [] OTHER -> FALSE

\* C33: serve_once of an accepted SUB_REQ, DEV_READ, DEV_WRITE or HB_REQ
\* whose payload does not parse writes exactly one frame, which decodes to a
\* checksum-valid ERROR with code GENERIC_ERROR, stores no subscription and
\* makes no external call: no time passes and nothing is disabled.
C33_MalformedGetsGenericError ==
    [][(pc = "dispatch" /\ pc' = "serve" /\ Malformed(buf)) =>
        /\ Len(sent') = 1
        /\ sent'[1][Len(sent'[1])] = MESSAGE_DELIMETER
        /\ LET c == Carried(sent'[1])
           IN  /\ c.status = COBS_DECODE_OK
               /\ c.out_len = MESSAGE_MIN_SIZE + 1
               /\ ChecksumHolds(c.buf)
               /\ c.buf[1] = ERROR
               /\ c.buf[2] = 1
               /\ c.buf[3] = GENERIC_ERROR
        /\ subscription' = subscription
        /\ update' = update
        /\ clock' = clock
        /\ dis' = dis]_vars

\* A SUB_REQ one byte short, after a subscription at 100 ms was stored: the
\* generic error frame goes out and the subscription stays.
C33_Witness ==
    /\ ev.op = "sub_req" /\ ~ev.ok
    /\ rx.frame = SUB_REQ_SHORT
    /\ update.interval = 100
    /\ sent = <<<<5, 255, 1, 255, 1, 0>>>>

\* C37: a receive that returns zero bytes, after a timeout with no traffic
\* or on an empty frame, writes nothing, leaves the liveness flag as it was,
\* and leaves the subscription, the tasks, the parameters and the message
\* untouched; serve_once returns.
C37_NothingReceived ==
    [][(pc = "recv" /\ pc' # "recv" /\ Len(rx.frame) = 0) =>
        /\ pc' = "serve"
        /\ sent = <<>> /\ sent' = <<>>
        /\ active' = active
        /\ accepted' = accepted
        /\ subscription' = subscription
        /\ update' = update
        /\ hb' = hb
        /\ params' = params
        /\ vals' = vals
        /\ buf' = buf
        /\ dis' = dis]_vars

\* An empty frame arrives before the timeout, after a tick has cleared the
\* liveness flag, and the flag stays cleared.
C37_Witness ==
    /\ ev.op = "recv_nothing"
    /\ rx.frame = <<>>
    /\ rx.waited < tmo
    /\ ~active
    /\ sent = <<>>


\* C39: counting the watchdog ticks since the last accepted message, the
\* first tick has not disabled and every tick from the second on has: with
\* no further accepted message the device is disabled at the second tick,
\* one DISABLE_INTERVAL after the first.
C39_SecondTickDisables ==
    accepted.ever =>
        wd.disables = IF wd.ticks = 0 THEN 0 ELSE wd.ticks - 1

\* Two ticks after an accepted message and none accepted since: the second
\* has disabled, the first has not.
C39_Witness ==
    /\ accepted.ever
    /\ wd.ticks = 2
    /\ wd.disables = 1
    /\ ~active


====
